---- MODULE Spec2Model ----
(***************************************************************************)
(* Model of the LogicSim circuit engine (CircuitEngine.ts) and of the      *)
(* Canvas pointer handlers that mutate it.                                 *)
(*                                                                         *)
(* The engine is one mutable object.  Every method is written as an        *)
(* operator from an engine record to an engine record, named as in the     *)
(* source (addNode, saveState, undo, tick, ...); the actions (AddNode,     *)
(* Undo, Tick, ...) apply one method to the current engine.                *)
(*                                                                         *)
(* Conventions                                                             *)
(*   - ids (generateId) are the naturals 1, 2, 3, ... handed out in order; *)
(*   - an optional field holding a number is Absent when it is not set;    *)
(*     groupId is Undefined when the code assigned `undefined` to it;      *)
(*   - an optional field holding an object is <<>> when it is not set and  *)
(*     <<v>> when it is set to v;                                          *)
(*   - coordinates are in quarter pixels (P(100) is 100 px) so that w / 2  *)
(*     and the centre of a bounding box are exact integers.                *)
(***************************************************************************)
EXTENDS Integers, Sequences, FiniteSets, TLC

VARIABLES
    nodes,            \* Map<string, LogicNode>, in insertion order
    wires,            \* Wire[]
    viewport,         \* {x, y, zoom}
    selectedNodeIds,  \* Set<string>, in insertion order
    selectedWireIds,  \* Set<string>
    interactionMode,  \* 'NONE' | 'DRAG_NODE' | 'SELECT_AREA' | 'WIRING' | 'PAN'
    wiringStart,      \* Pin | null
    hoveredPin,       \* Pin | null
    isRunning,
    lastTick,
    tickCount,
    fnCache,          \* Map<string, Function>: the code each entry was compiled from
    clipboard,
    historyStack,
    redoStack,
    nextId,           \* the next id generateId returns
    library,          \* the 'library' object store of the database, by createdAt
    gesture,          \* dragStart, dragOffset, selectionStart and selectionCurrent
    now,              \* the time of the last animation frame, in ms
    lastStep,         \* history variable: the timestamp of the last step a frame made
    dbInstance,       \* IDBPDatabase | null, of storage/db.ts
    calls,            \* the getDB() calls in flight: where each is and what it holds
    opened,           \* history variable: the number of openDB calls made
    closed,           \* history variable: the number of closeDB calls made
    lastOp,           \* history variable: the method that made the last step
    pre,              \* history variable: the engine as it was before that step
    steps             \* history variable: number of steps taken

vars == <<nodes, wires, viewport, selectedNodeIds, selectedWireIds, interactionMode,
          wiringStart, hoveredPin, isRunning, lastTick, tickCount, fnCache, clipboard,
          historyStack, redoStack, nextId, library, gesture, now, lastStep, dbInstance, calls, opened, closed,
          lastOp, pre, steps>>

dbVars == <<dbInstance, calls, opened, closed>>

-----------------------------------------------------------------------------
(* Bounds of the model *)

MaxSteps == 3
MaxNodes == 7
MaxWires == 5
MaxSimSteps == 5
MaxClockSteps == 11
MaxClockNodes == 5
MaxMapSteps == 4
MaxChipSteps == 4
SettleTicks == 4
MaxRunSteps == 5
MaxHistSteps == 4
MaxLatchSteps == 6
MaxLibSteps == 3
MaxPackSteps == 4
MaxGroupSteps == 4
MaxItems == 3
MaxCacheSteps == 4
MaxTickSteps == 4
MaxOrderSteps == 4
MaxUndoSteps == 6
MaxTimeSteps == 4
MaxPointerSteps == 5
MaxDbSteps == 7
MaxCallers == 3
Callers == 1..MaxCallers

-----------------------------------------------------------------------------
(* Program constants *)

maxHistory == 50
tickRate == 100
DEF_GATE_W == 60
DEF_GATE_H == 40
RelaxIterations == 10
ClockHalfPeriod == 5

-----------------------------------------------------------------------------
(* Values *)

Absent == 0
Undefined == 0 - 1
NoNum == 0 - 2

P(px) == 4 * px

Some(v) == <<v>>
IsSome(o) == Len(o) > 0
The(o) == o[1]

Range(s) == {s[i] : i \in 1..Len(s)}
Fill(n, v) == [i \in 1..n |-> v]
(* a mapping that sends pin i to port n - 1 - i *)
Mirrored(n) == [i \in 1..n |-> n - i]

Identity(n) == [i \in 1..n |-> i - 1]
IndexOf(s, v) == IF \E i \in 1..Len(s) : s[i] = v
                 THEN (CHOOSE i \in 1..Len(s) : s[i] = v /\ \A j \in 1..(i - 1) : s[j] # v) - 1
                 ELSE 0 - 1
MinOf(S) == CHOOSE x \in S : \A y \in S : x <= y
MaxOf(S) == CHOOSE x \in S : \A y \in S : x >= y

BlankNode ==
    [id |-> Absent, type |-> "AND", position |-> [x |-> 0, y |-> 0],
     inputs |-> <<>>, outputs |-> <<>>, label |-> "", groupId |-> Absent,
     width |-> NoNum, height |-> NoNum, inputCount |-> NoNum, outputCount |-> NoNum,
     truthTable |-> {}, internalState |-> <<>>, inputMapping |-> <<>>,
     outputMapping |-> <<>>, compiledFunction |-> <<>>, internals |-> <<>>]

(* Map<string, LogicNode> as the sequence of its values in insertion order *)
HasNode(ns, id) == \E i \in 1..Len(ns) : ns[i].id = id
NodeIndex(ns, id) == CHOOSE i \in 1..Len(ns) : ns[i].id = id
GetNode(ns, id) == ns[NodeIndex(ns, id)]
MapSet(ns, n) == IF HasNode(ns, n.id) THEN [ns EXCEPT ![NodeIndex(ns, n.id)] = n]
                 ELSE Append(ns, n)
NodeIds(ns) == {ns[i].id : i \in 1..Len(ns)}
TypeOf(ns, id) == IF HasNode(ns, id) THEN GetNode(ns, id).type ELSE "none"

(* Set<string> as the sequence of its members in insertion order *)
SetAdd(s, v) == IF v \in Range(s) THEN s ELSE Append(s, v)

-----------------------------------------------------------------------------
(* Pin/IO resolver *)

getInputCount(type, node) ==
    IF type = "IC" /\ IsSome(node) /\ The(node).inputCount # NoNum THEN The(node).inputCount
    ELSE IF type \in {"NOT", "BUFFER", "LIGHT"} THEN 1
    ELSE IF type \in {"SWITCH", "CLOCK", "GROUP"} THEN 0
    ELSE 2

getOutputCount(type, node) ==
    IF type = "IC" /\ IsSome(node) /\ The(node).outputCount # NoNum THEN The(node).outputCount
    ELSE IF type \in {"LIGHT", "GROUP"} THEN 0 ELSE 1

getNodeDimensions(n) ==
    IF n.type \in {"BUFFER", "NOT"} THEN [w |-> P(40), h |-> P(30)]
    ELSE IF n.type \in {"GROUP", "IC"}
         THEN [w |-> IF n.width \in {NoNum, 0} THEN P(100) ELSE n.width,
               h |-> IF n.height \in {NoNum, 0} THEN P(100) ELSE n.height]
    ELSE [w |-> P(DEF_GATE_W), h |-> P(DEF_GATE_H)]

-----------------------------------------------------------------------------
(* The engine as one record *)

Eng ==
    [nodes |-> nodes, wires |-> wires, viewport |-> viewport,
     selectedNodeIds |-> selectedNodeIds, selectedWireIds |-> selectedWireIds,
     interactionMode |-> interactionMode, wiringStart |-> wiringStart,
     hoveredPin |-> hoveredPin, isRunning |-> isRunning, lastTick |-> lastTick,
     tickCount |-> tickCount, fnCache |-> fnCache, clipboard |-> clipboard,
     historyStack |-> historyStack, redoStack |-> redoStack, nextId |-> nextId,
     isRestoringHistory |-> FALSE, threw |-> FALSE,
     dragStart |-> [x |-> 0, y |-> 0], dragOffset |-> <<>>,
     selectionStart |-> [x |-> 0, y |-> 0], selectionCurrent |-> [x |-> 0, y |-> 0]]

NewEngine ==
    [nodes |-> <<>>, wires |-> <<>>, viewport |-> [x |-> 0, y |-> 0, zoom |-> 1],
     selectedNodeIds |-> <<>>, selectedWireIds |-> {},
     interactionMode |-> "NONE", wiringStart |-> <<>>, hoveredPin |-> <<>>,
     isRunning |-> FALSE, lastTick |-> 0, tickCount |-> 0, fnCache |-> {},
     clipboard |-> <<>>, historyStack |-> <<>>, redoStack |-> <<>>, nextId |-> 1,
     isRestoringHistory |-> FALSE, threw |-> FALSE,
     dragStart |-> [x |-> 0, y |-> 0], dragOffset |-> <<>>,
     selectionStart |-> [x |-> 0, y |-> 0], selectionCurrent |-> [x |-> 0, y |-> 0]]

-----------------------------------------------------------------------------
(* Serialization and history *)

RECURSIVE stringifyNode(_)
stringifyNode(n) ==
    [n EXCEPT !.groupId = IF n.groupId = Undefined THEN Absent ELSE n.groupId,
              !.internals = IF n.internals = <<>> THEN <<>>
                            ELSE <<[nodes |-> [i \in 1..Len(n.internals[1].nodes) |->
                                                  stringifyNode(n.internals[1].nodes[i])],
                                    wires |-> n.internals[1].wires]>>]

deepClone(n) == stringifyNode(n)

serialize(e) == [nodes |-> e.nodes, wires |-> e.wires, viewport |-> e.viewport]

stringify(data) ==
    [nodes |-> [i \in 1..Len(data.nodes) |-> stringifyNode(data.nodes[i])],
     wires |-> data.wires, viewport |-> data.viewport]

(* an update notification that pushes a checkpoint of its own *)
triggerCheckpoint(e) ==
    [e EXCEPT !.historyStack = Append(e.historyStack,
                                      [nodes |-> e.nodes, wires |-> e.wires,
                                       viewport |-> e.viewport])]

triggerUpdate(e) == e

deserialize(e, data) ==
    triggerUpdate([e EXCEPT !.nodes = data.nodes, !.fnCache = {},
                            !.selectedNodeIds = <<>>, !.selectedWireIds = {},
                            !.wires = data.wires, !.viewport = data.viewport])

(* a saveState that never evicts *)
pushUncapped(stack, state) == Append(stack, state)

(* historyStack.push(state), then shift() past maxHistory *)
push(stack, state) ==
    IF Len(stack) + 1 > maxHistory THEN Tail(Append(stack, state)) ELSE Append(stack, state)

(* a saveState that pushes the snapshot whatever the top of the stack is *)
saveAlways(e) ==
    IF e.isRestoringHistory THEN e
    ELSE [e EXCEPT !.historyStack = push(e.historyStack,
                                         [nodes |-> [i \in 1..Len(e.nodes) |->
                                                        stringifyNode(e.nodes[i])],
                                          wires |-> e.wires, viewport |-> e.viewport]),
                   !.redoStack = <<>>]

saveState(e) ==
    LET save(state) ==
            IF Len(e.historyStack) > 0 /\ e.historyStack[Len(e.historyStack)] = state THEN e
            ELSE [e EXCEPT !.historyStack = push(e.historyStack, state), !.redoStack = <<>>]
    IN IF e.isRestoringHistory THEN e ELSE save(stringify(serialize(e)))

undo(e) ==
    LET n == Len(e.historyStack)
        restore(popped) ==
            [deserialize([e EXCEPT !.historyStack = popped,
                                   !.redoStack = Append(e.redoStack, e.historyStack[n]),
                                   !.isRestoringHistory = TRUE],
                         popped[n - 1])
             EXCEPT !.isRestoringHistory = FALSE]
    IN IF n <= 1 THEN e ELSE restore(SubSeq(e.historyStack, 1, n - 1))

redo(e) ==
    LET n == Len(e.redoStack)
        restore(next) ==
            [deserialize([e EXCEPT !.redoStack = SubSeq(e.redoStack, 1, n - 1),
                                   !.historyStack = Append(e.historyStack, next),
                                   !.isRestoringHistory = TRUE],
                         next)
             EXCEPT !.isRestoringHistory = FALSE]
    IN IF n = 0 THEN e ELSE restore(e.redoStack[n])

-----------------------------------------------------------------------------
(* Graph operations *)

(* a template is a partial LogicNode: the fields libraryItemToNodeTemplate sets *)
TemplateFields == {"label", "inputCount", "outputCount", "width", "height",
                   "truthTable", "compiledFunction", "internals"}

spread(n, t) ==
    [f \in DOMAIN n |-> IF f \in TemplateFields THEN t[f] ELSE n[f]]

newNode(id, type, pos, template) ==
    LET seeded(base) ==
            IF IsSome(template)
            THEN [spread(base, The(template)) EXCEPT
                     !.internals = deepClone(spread(base, The(template))).internals]
            ELSE base
    IN seeded([BlankNode EXCEPT !.id = id, !.type = type, !.position = pos,
                                !.inputs = Fill(getInputCount(type, template), FALSE),
                                !.outputs = Fill(getOutputCount(type, template), FALSE)])

addNode(e, type, pos, template) ==
    LET put(e1) ==
            triggerUpdate([e1 EXCEPT
                !.nextId = e1.nextId + 1,
                !.nodes = MapSet(e1.nodes, newNode(e1.nextId, type, pos, template))])
    IN put(saveState(e))

constructor ==
    saveState(addNode(addNode(addNode(addNode(NewEngine,
        "SWITCH", [x |-> P(100), y |-> P(100)], <<>>),
        "SWITCH", [x |-> P(100), y |-> P(200)], <<>>),
        "AND", [x |-> P(300), y |-> P(150)], <<>>),
        "LIGHT", [x |-> P(500), y |-> P(150)], <<>>))

(* a cache that keeps the entry *)
cacheKeep(cache, id) == cache

cacheDelete(cache, id) == {c \in cache : c.id # id}

(* Object.assign(node, data): data is a record holding the fields to overwrite *)
assign(node, data) ==
    [f \in DOMAIN node |-> IF f \in DOMAIN data THEN data[f] ELSE node[f]]

updateNodeData(e, id, data) ==
    LET touched(node) ==
            /\ node.type = "IC"
            /\ "compiledFunction" \in DOMAIN data
            /\ IsSome(data.compiledFunction)
        merge(e1, node) ==
            triggerUpdate([e1 EXCEPT
                !.nodes = MapSet(e1.nodes, node),
                !.fnCache = IF touched(node) THEN cacheDelete(e1.fnCache, id) ELSE e1.fnCache])
        update(e1) == merge(e1, assign(GetNode(e1.nodes, id), data))
    IN IF ~HasNode(e.nodes, id) THEN e ELSE update(saveState(e))

(* deleteSelected without the filter on the wires of the deleted nodes *)
keepWires(ws, ids) == ws

(* wires.filter(w => w.sourceNodeId !== id && w.targetNodeId !== id), for each id *)
pruneWires(ws, ids) ==
    SelectSeq(ws, LAMBDA w : w.sourceNodeId \notin ids /\ w.targetNodeId \notin ids)

deleteSelected(e) ==
    LET detach(ns, ids) ==
            [i \in 1..Len(ns) |->
                IF ns[i].groupId \in ids THEN [ns[i] EXCEPT !.groupId = Undefined] ELSE ns[i]]
        unselected(ws, wireIds) ==
            IF wireIds # {} THEN SelectSeq(ws, LAMBDA w : w.id \notin wireIds) ELSE ws
        delete(e1, ids) ==
            triggerUpdate([e1 EXCEPT
                !.nodes = detach(SelectSeq(e1.nodes, LAMBDA n : n.id \notin ids), ids),
                !.wires = unselected(pruneWires(e1.wires, ids), e1.selectedWireIds),
                !.fnCache = {c \in e1.fnCache : c.id \notin ids},
                !.selectedNodeIds = <<>>, !.selectedWireIds = {}])
    IN IF Len(e.selectedNodeIds) = 0 /\ e.selectedWireIds = {} THEN e
       ELSE delete(saveState(e), Range(e.selectedNodeIds))

-----------------------------------------------------------------------------
(* Clipboard *)

copy(e) ==
    LET clip(present) ==
            [nodes |-> [i \in 1..Len(present) |-> deepClone(GetNode(e.nodes, present[i]))],
             wires |-> SelectSeq(e.wires, LAMBDA w :
                           /\ w.sourceNodeId \in Range(e.selectedNodeIds)
                           /\ w.targetNodeId \in Range(e.selectedNodeIds))]
    IN IF Len(e.selectedNodeIds) = 0 THEN e
       ELSE [e EXCEPT !.clipboard =
                Some(clip(SelectSeq(e.selectedNodeIds, LAMBDA id : HasNode(e.nodes, id))))]

shift(pos, dx, dy) == [x |-> pos.x + dx, y |-> pos.y + dy]

idsOf(ns) == [i \in 1..Len(ns) |-> ns[i].id]

(* idMap.get(id) when the k-th new id is first + k - 1: the last entry set for id wins *)
mappedId(keys, first, id) ==
    first + MaxOf({k \in 1..Len(keys) : keys[k] = id}) - 1

(* an unpack, paste or duplicate that re-creates no wire *)
dropWires(ws, keys, first, firstWireId, keepState) == <<>>

(* the wires of ws with both ends among the keys of idMap, re-created on the new ids *)
remapWires(ws, keys, first, firstWireId, keepState) ==
    LET inside == SelectSeq(ws, LAMBDA w : /\ w.sourceNodeId \in Range(keys)
                                          /\ w.targetNodeId \in Range(keys))
    IN [i \in 1..Len(inside) |->
           [inside[i] EXCEPT !.id = firstWireId + i - 1,
                             !.sourceNodeId = mappedId(keys, first, inside[i].sourceNodeId),
                             !.targetNodeId = mappedId(keys, first, inside[i].targetNodeId),
                             !.state = IF keepState THEN inside[i].state ELSE FALSE]]

pasteRelink(groupId, keys, first) ==
    IF groupId > 0 /\ groupId \in Range(keys) THEN mappedId(keys, first, groupId)
    ELSE Undefined

(* nodes and wires appended, the new nodes selected, the ids they took consumed *)
place(e, newNodes, newWires) ==
    [e EXCEPT !.nodes = e.nodes \o newNodes,
              !.selectedNodeIds = idsOf(newNodes),
              !.wires = e.wires \o newWires,
              !.nextId = e.nextId + Len(newNodes) + Len(newWires)]

paste(e) ==
    LET pasteClip(e1, clip) ==
            LET detached(n, i) ==
                    [deepClone(n) EXCEPT !.id = e1.nextId + i - 1,
                                         !.position = shift(n.position, P(20), P(20)),
                                         !.groupId = Undefined]
            IN place(e1,
                     [i \in 1..Len(clip.nodes) |->
                         [detached(clip.nodes[i], i) EXCEPT
                             !.groupId = pasteRelink(detached(clip.nodes[i], i).groupId,
                                                     idsOf(clip.nodes), e1.nextId)]],
                     remapWires(clip.wires, idsOf(clip.nodes), e1.nextId,
                                e1.nextId + Len(clip.nodes), TRUE))
        pasteInto(e1) == saveState(triggerUpdate(pasteClip(e1, The(e1.clipboard))))
    IN IF ~IsSome(e.clipboard) THEN e ELSE pasteInto(saveState(e))

cut(e) == deleteSelected(copy(e))

(* a duplicate that leaves the clone in the group of the original *)
duplicateKeep(groupId, keys, first) == groupId

duplicateRelink(groupId, keys, first) ==
    IF groupId > 0 /\ groupId \notin Range(keys) THEN Undefined
    ELSE IF groupId > 0 /\ groupId \in Range(keys) THEN mappedId(keys, first, groupId)
    ELSE groupId

duplicateSelected(e) ==
    LET duplicate(e1, present) ==
            LET clone(node) ==
                    [deepClone(node) EXCEPT
                        !.id = mappedId(present, e1.nextId, node.id),
                        !.position = shift(node.position, P(20), P(20)),
                        !.inputs = Fill(Len(node.inputs), FALSE),
                        !.outputs = Fill(Len(node.outputs), FALSE),
                        !.groupId = duplicateRelink(deepClone(node).groupId,
                                                    present, e1.nextId)]
            IN place(e1,
                     [i \in 1..Len(present) |-> clone(GetNode(e1.nodes, present[i]))],
                     remapWires(e1.wires, present, e1.nextId, e1.nextId + Len(present), TRUE))
        duplicateIn(e1) ==
            triggerUpdate(duplicate(e1, SelectSeq(e1.selectedNodeIds,
                                                  LAMBDA id : HasNode(e1.nodes, id))))
    IN IF Len(e.selectedNodeIds) = 0 THEN e ELSE duplicateIn(saveState(e))

-----------------------------------------------------------------------------
(* Groups *)

BoundingBox(ns) ==
    [minX |-> MinOf({n.position.x - getNodeDimensions(n).w \div 2 : n \in ns}),
     minY |-> MinOf({n.position.y - getNodeDimensions(n).h \div 2 : n \in ns}),
     maxX |-> MaxOf({n.position.x + getNodeDimensions(n).w \div 2 : n \in ns}),
     maxY |-> MaxOf({n.position.y + getNodeDimensions(n).h \div 2 : n \in ns})]

membersOf(ns, groupId) == SelectSeq(ns, LAMBDA n : n.groupId = groupId)

(* the GROUP node drawn around a box, centred on it *)
groupAround(groupId, box, padding) ==
    [BlankNode EXCEPT
        !.id = groupId, !.type = "GROUP",
        !.position = [x |-> box.minX - padding + ((box.maxX - box.minX) + padding * 2) \div 2,
                      y |-> box.minY - padding + ((box.maxY - box.minY) + padding * 2) \div 2],
        !.width = (box.maxX - box.minX) + padding * 2,
        !.height = (box.maxY - box.minY) + padding * 2,
        !.label = "Group"]

(* a grouping that adopts GROUP nodes as well *)
adoptsAny(n) == TRUE

(* if (n && n.type !== 'GROUP') n.groupId = groupId *)
adoptable(n) == n.type # "GROUP"

createGroupFromSelection(e) ==
    LET adopt(ns, sel, groupId) ==
            [i \in 1..Len(ns) |->
                IF ns[i].id \in sel /\ adoptable(ns[i])
                THEN [ns[i] EXCEPT !.groupId = groupId] ELSE ns[i]]
        select(e1, ns, groupId) ==
            triggerUpdate([e1 EXCEPT
                !.nodes = ns, !.nextId = groupId + 1,
                !.selectedNodeIds = <<groupId>> \o idsOf(membersOf(ns, groupId))])
        group(e1, chosen, sel) ==
            IF chosen = {} THEN e1
            ELSE select(e1,
                        adopt(MapSet(e1.nodes, groupAround(e1.nextId, BoundingBox(chosen), P(30))),
                              sel, e1.nextId),
                        e1.nextId)
        groupIn(e1, sel) ==
            group(e1, {n \in Range(e1.nodes) : n.id \in sel /\ n.type # "GROUP"}, sel)
    IN IF Len(e.selectedNodeIds) = 0 THEN e
       ELSE groupIn(saveState(e), Range(e.selectedNodeIds))

ungroupSelected(e) ==
    LET free(ns, gone) ==
            [i \in 1..Len(ns) |->
                IF ns[i].groupId \in gone THEN [ns[i] EXCEPT !.groupId = Undefined] ELSE ns[i]]
        reselect(sel, freed) == sel \o SelectSeq(freed, LAMBDA id : id \notin Range(sel))
        ungroup(e1, kept, gone) ==
            triggerUpdate([e1 EXCEPT
                !.nodes = free(kept, gone),
                !.selectedNodeIds =
                    reselect(SelectSeq(e1.selectedNodeIds, LAMBDA id : id \notin gone),
                             idsOf(SelectSeq(kept, LAMBDA n : n.groupId \in gone)))])
        ungroupIn(e1, gone) ==
            ungroup(e1, SelectSeq(e1.nodes, LAMBDA n : n.id \notin gone), gone)
    IN IF {id \in Range(e.selectedNodeIds) : TypeOf(e.nodes, id) = "GROUP"} = {} THEN e
       ELSE ungroupIn(saveState(e),
                      {id \in Range(e.selectedNodeIds) : TypeOf(e.nodes, id) = "GROUP"})

-----------------------------------------------------------------------------
(* Generated code of a packed IC.                                          *)
(*                                                                         *)
(* packGroupToIC emits a JavaScript function body.  The model keeps the    *)
(* body as the data it is generated from: sn is the list of state          *)
(* variables (one per non-SWITCH member, in Map order) with the            *)
(* expressions read inside the relaxation loop, outs the expressions of    *)
(* the returned outputs.  An expression is                                 *)
(*   [k |-> "in",   a |-> i]           (inputs[i] ? 1 : 0)                  *)
(*   [k |-> "var",  a |-> s]           the state variable of slot s         *)
(*   [k |-> "out",  a |-> s, b |-> p]  v_out[p] of the nested IC of slot s  *)
(*   [k |-> "zero"]                    0                                    *)
(* A state slot is [v |-> number, st |-> nested state]: a gate uses v, a    *)
(* nested IC uses st.                                                       *)

Zero == [k |-> "zero", a |-> 0, b |-> 0]
(* a slot that forgets the nested state *)
SlotCleared(v, st) == [v |-> v, st |-> <<>>]

Slot(v, st) == [v |-> v, st |-> st]

(* Array.prototype.sort((a, b) => a.position.y - b.position.y), stable *)
sortByY(ns) ==
    LET rank(i) == Cardinality({j \in 1..Len(ns) :
                        \/ ns[j].position.y < ns[i].position.y
                        \/ ns[j].position.y = ns[i].position.y /\ j < i})
    IN [k \in 1..Len(ns) |-> ns[CHOOSE i \in 1..Len(ns) : rank(i) = k - 1]]

idIndex(ns, id) == IndexOf(idsOf(ns), id)

(* the expression that reads the source of wire w *)
traceSource(w, internals, inputs, stateNodes) ==
    IF TypeOf(internals, w.sourceNodeId) = "SWITCH"
    THEN [k |-> "in", a |-> idIndex(inputs, w.sourceNodeId), b |-> 0]
    ELSE IF TypeOf(internals, w.sourceNodeId) = "IC"
         THEN [k |-> "out", a |-> idIndex(stateNodes, w.sourceNodeId), b |-> w.sourcePinIndex]
    ELSE [k |-> "var", a |-> idIndex(stateNodes, w.sourceNodeId), b |-> 0]

(* the expression for the first of the wires found, '0' when there is none *)
traceFirst(found, internals, inputs, stateNodes) ==
    IF Len(found) > 0 THEN traceSource(found[1], internals, inputs, stateNodes) ELSE Zero

getInVal(n, idx, internalWires, internals, inputs, stateNodes) ==
    traceFirst(SelectSeq(internalWires,
                         LAMBDA w : w.targetNodeId = n.id /\ w.targetPinIndex = idx),
               internals, inputs, stateNodes)

count(c) == IF c = NoNum THEN 0 ELSE c

arity(n) ==
    IF n.type = "IC" THEN count(n.inputCount)
    ELSE IF n.type \in {"AND", "OR", "NAND", "XOR"} THEN 2
    ELSE IF n.type \in {"NOT", "BUFFER"} THEN 1 ELSE 0

generateCode(internals, inputs, outputs, stateNodes, internalWires) ==
    LET stmt(n) == [type |-> n.type,
                    ins |-> [k \in 1..arity(n) |->
                                getInVal(n, k - 1, internalWires, internals, inputs, stateNodes)],
                    fn |-> IF n.type = "IC" THEN n.compiledFunction ELSE <<>>,
                    oc |-> IF n.type = "IC" THEN count(n.outputCount) ELSE 0]
        out(o) == traceFirst(SelectSeq(internalWires, LAMBDA w : w.targetNodeId = o.id),
                             internals, inputs, stateNodes)
    IN [ok |-> TRUE,
        sn |-> [i \in 1..Len(stateNodes) |-> stmt(stateNodes[i])],
        outs |-> [i \in 1..Len(outputs) |-> out(outputs[i])]]

(* JavaScript arithmetic of the generated expressions; NaN and undefined are Undefined *)
gate(type, a, b) ==
    LET nan == a = Undefined \/ b = Undefined
    IN IF type = "AND" THEN (IF ~nan /\ a + b = 2 THEN 1 ELSE 0)
       ELSE IF type = "OR" THEN (IF ~nan /\ a + b > 0 THEN 1 ELSE 0)
       ELSE IF type = "NOT" THEN (IF a = 0 THEN 1 ELSE 0)
       ELSE IF type = "NAND" THEN (IF ~nan /\ a + b < 2 THEN 1 ELSE 0)
       ELSE IF type = "XOR" THEN (IF a # b THEN 1 ELSE 0)
       ELSE IF type = "BUFFER" THEN a
       ELSE 0

truthyNum(v) == v \notin {0, Undefined}

evalExpr(x, inputs, env) ==
    IF x.k = "in" THEN (IF x.a + 1 \in 1..Len(inputs) /\ inputs[x.a + 1] THEN 1 ELSE 0)
    ELSE IF x.k = "var" THEN env[x.a + 1].v
    ELSE IF x.k = "out"
         THEN (IF x.b + 1 \in 1..Len(env[x.a + 1].out) THEN env[x.a + 1].out[x.b + 1]
               ELSE Undefined)
    ELSE 0

RECURSIVE runCode(_, _, _)
RECURSIVE relax(_, _, _, _)
RECURSIVE sweep(_, _, _, _)

(* the call of a nested IC's function: func(inputs, state) *)
callNested(s, args, st) ==
    IF IsSome(s.fn) THEN runCode(The(s.fn), [k \in 1..Len(args) |-> truthyNum(args[k])], st)
    ELSE [outputs |-> Fill(s.oc, 0), state |-> st]

(* one statement of the loop body: the i-th state variable *)
assignSlot(s, args, slot) ==
    LET store(res) == [slot EXCEPT !.st = res.state, !.out = res.outputs]
    IN IF s.type = "IC" THEN store(callNested(s, args, slot.st))
       ELSE [slot EXCEPT !.v = gate(s.type,
                                    IF Len(args) >= 1 THEN args[1] ELSE 0,
                                    IF Len(args) >= 2 THEN args[2] ELSE 0)]

sweep(code, inputs, env, i) ==
    IF i > Len(env) THEN env
    ELSE sweep(code, inputs,
               [env EXCEPT ![i] =
                   assignSlot(code.sn[i],
                              [k \in 1..Len(code.sn[i].ins) |->
                                  evalExpr(code.sn[i].ins[k], inputs, env)],
                              env[i])],
               i + 1)

(* for(let iter=0; iter<10; iter++) { ... } *)
relax(code, inputs, env, iter) ==
    IF iter >= RelaxIterations \/ Len(env) = 0 THEN env
    ELSE relax(code, inputs, sweep(code, inputs, env, 1), iter + 1)

(* generated code that starts every call from the zero state *)
freshState(code, state) ==
    [i \in 1..Len(code.sn) |->
        [v |-> 0, st |-> <<>>,
         out |-> IF code.sn[i].type = "IC" THEN Fill(code.sn[i].oc, 0) ELSE <<>>]]

(* let v = state[i] !== undefined ? state[i] : 0, and the IC variant *)
unpackState(code, state) ==
    [i \in 1..Len(code.sn) |->
        IF code.sn[i].type = "IC"
        THEN [v |-> 0, st |-> IF i <= Len(state) THEN state[i].st ELSE <<>>,
              out |-> Fill(code.sn[i].oc, 0)]
        ELSE [v |-> IF i <= Len(state) THEN state[i].v ELSE 0, st |-> <<>>, out |-> <<>>]]

(* the function (inputs, state) => { outputs, state } made from the code *)
runCode(code, inputs, state) ==
    LET result(env) ==
            [outputs |-> [k \in 1..Len(code.outs) |-> evalExpr(code.outs[k], inputs, env)],
             state |-> [i \in 1..Len(env) |-> Slot(env[i].v, env[i].st)]]
    IN result(relax(code, inputs, unpackState(code, state), 0))

-----------------------------------------------------------------------------
(* Pack and unpack *)

firstSelected(e, type) ==
    LET hits == SelectSeq(e.selectedNodeIds, LAMBDA id : TypeOf(e.nodes, id) = type)
    IN IF Len(hits) > 0 THEN hits[1] ELSE Absent

(* the IC node that replaces the group *)
makeIC(groupNode, internals, inputs, outputs, stateNodes, internalWires) ==
    [BlankNode EXCEPT
        !.id = groupNode.id, !.type = "IC",
        !.position = groupNode.position,
        !.width = P(100),
        !.height = P(MaxOf({Len(inputs), Len(outputs)}) * 20 + 40),
        !.inputCount = Len(inputs), !.outputCount = Len(outputs),
        !.inputs = Fill(Len(inputs), FALSE),
        !.outputs = Fill(Len(outputs), FALSE),
        !.label = IF groupNode.label = "" THEN "Chip" ELSE groupNode.label,
        !.compiledFunction =
            Some(generateCode(internals, inputs, outputs, stateNodes, internalWires)),
        !.internalState = Some([i \in 1..Len(stateNodes) |->
            IF stateNodes[i].type = "IC"
            THEN Slot(0, IF IsSome(stateNodes[i].internalState)
                         THEN The(stateNodes[i].internalState) ELSE <<>>)
            ELSE Slot(0, <<>>)]),
        !.inputMapping = Some(Identity(Len(inputs))),
        !.outputMapping = Some(Identity(Len(outputs))),
        !.internals = Some(
            [nodes |-> [i \in 1..Len(internals) |->
                           [internals[i] EXCEPT
                               !.position = shift(internals[i].position,
                                                  0 - groupNode.position.x,
                                                  0 - groupNode.position.y),
                               !.groupId = Undefined]],
             wires |-> internalWires])]

(* a pack that converts a group with no interface as well *)
alwaysExposed(inputs, outputs) == FALSE

(* if (inputs.length === 0 && outputs.length === 0) return *)
nothingToExpose(inputs, outputs) == Len(inputs) = 0 /\ Len(outputs) = 0

packGroupToIC(e) ==
    LET replace(e1, ids, groupId, icNode) ==
            triggerUpdate([e1 EXCEPT
                !.nodes = MapSet(SelectSeq(e1.nodes,
                                           LAMBDA n : n.id \notin ids /\ n.id # groupId),
                                 icNode),
                !.wires = pruneWires(e1.wires, ids),
                !.selectedNodeIds = <<icNode.id>>])
        convert(e1, groupNode, internals, inputs, outputs) ==
            replace(e1, NodeIds(internals), groupNode.id,
                    makeIC(groupNode, internals, inputs, outputs,
                           SelectSeq(internals, LAMBDA n : n.type # "SWITCH"),
                           SelectSeq(e1.wires, LAMBDA w :
                               /\ w.sourceNodeId \in NodeIds(internals)
                               /\ w.targetNodeId \in NodeIds(internals))))
        pack(groupNode, internals, inputs, outputs) ==
            IF nothingToExpose(inputs, outputs) THEN e
            ELSE convert(saveState(e), groupNode, internals, inputs, outputs)
        packGroup(groupId, internals) ==
            pack(GetNode(e.nodes, groupId), internals,
                 sortByY(SelectSeq(internals, LAMBDA n : n.type = "SWITCH")),
                 sortByY(SelectSeq(internals, LAMBDA n : n.type = "LIGHT")))
        packId(groupId) ==
            IF groupId = Absent THEN e ELSE packGroup(groupId, membersOf(e.nodes, groupId))
    IN packId(firstSelected(e, "GROUP"))

(* the GROUP node an unpacked IC turns into *)
unpackedGroup(groupId, icNode, storedNodes, box, groupPadding) ==
    [BlankNode EXCEPT
        !.id = groupId, !.type = "GROUP", !.position = icNode.position,
        !.width = IF Len(storedNodes) > 0 THEN (box.maxX - box.minX) + groupPadding * 2
                  ELSE NoNum,
        !.height = IF Len(storedNodes) > 0 THEN (box.maxY - box.minY) + groupPadding * 2
                   ELSE NoNum,
        !.label = IF icNode.label = "" THEN "Unpacked" ELSE icNode.label]

unpackICToGroup(e) ==
    LET install(e1, icId, group, members, newWires) ==
            triggerUpdate([e1 EXCEPT
                !.nodes = SelectSeq(Append(e1.nodes, group) \o members,
                                    LAMBDA n : n.id # icId),
                !.wires = e1.wires \o newWires,
                !.fnCache = cacheDelete(e1.fnCache, icId),
                !.nextId = e1.nextId + 1 + Len(members) + Len(newWires),
                !.selectedNodeIds = <<group.id>> \o idsOf(members)])
        unpack(e1, icNode, storedNodes, storedWires, groupId) ==
            install(e1, icNode.id,
                    unpackedGroup(groupId, icNode, storedNodes,
                                  BoundingBox(Range(storedNodes)), P(40)),
                    [i \in 1..Len(storedNodes) |->
                        [storedNodes[i] EXCEPT
                            !.id = groupId + i, !.groupId = groupId,
                            !.position = shift(storedNodes[i].position,
                                               icNode.position.x, icNode.position.y)]],
                    remapWires(storedWires, idsOf(storedNodes), groupId + 1,
                               groupId + 1 + Len(storedNodes), FALSE))
        unpackNode(e1, icNode) ==
            unpack(e1, icNode, The(icNode.internals).nodes, The(icNode.internals).wires,
                   e1.nextId)
        unpackIn(e1, icId) == unpackNode(e1, GetNode(e1.nodes, icId))
        unpackId(icId) ==
            IF icId = Absent THEN e
            ELSE IF ~IsSome(GetNode(e.nodes, icId).internals) THEN e
            ELSE unpackIn(saveState(e), icId)
    IN unpackId(firstSelected(e, "IC"))

-----------------------------------------------------------------------------
(* Simulation *)

(* arr[idx] = v on a JavaScript array: writing past the end grows the array *)
setAt(arr, idx, v) ==
    IF idx + 1 <= Len(arr) THEN [arr EXCEPT ![idx + 1] = v]
    ELSE arr \o Fill(idx - Len(arr), FALSE) \o <<v>>

(* arr[idx] read as a condition: a missing entry is falsy *)
at(arr, idx) == IF idx + 1 \in 1..Len(arr) THEN arr[idx + 1] ELSE FALSE

clockOutput(tc) == (tc \div ClockHalfPeriod) % 2 = 0

updateClocks(ns, tc) ==
    [i \in 1..Len(ns) |->
        IF ns[i].type = "CLOCK"
        THEN [ns[i] EXCEPT !.outputs = setAt(ns[i].outputs, 0, clockOutput(tc))]
        ELSE ns[i]]

(* a reset phase that leaves every input as it was *)
keepInputs(ns) == ns

resetInputs(ns) ==
    [i \in 1..Len(ns) |->
        IF ns[i].type \notin {"SWITCH", "CLOCK"}
        THEN [ns[i] EXCEPT !.inputs = Fill(Len(ns[i].inputs), FALSE)]
        ELSE ns[i]]

(* if (source && target) *)
wireGuard(ns, w) == HasNode(ns, w.sourceNodeId) /\ HasNode(ns, w.targetNodeId)

(* a step whose propagation phase copies nothing *)
propagateNothing(st, k) == st

(* the body of wires.forEach for the k-th wire; reading a property of a node *)
(* that is not in the map is a TypeError                                     *)
propagateWire(st, k) ==
    LET w == st.wires[k]
    IN IF ~wireGuard(st.nodes, w) THEN st
       ELSE IF ~HasNode(st.nodes, w.sourceNodeId) \/ ~HasNode(st.nodes, w.targetNodeId)
            THEN [st EXCEPT !.threw = TRUE]
       ELSE LET source == GetNode(st.nodes, w.sourceNodeId)
                target == GetNode(st.nodes, w.targetNodeId)
                val == at(source.outputs, w.sourcePinIndex)
            IN [st EXCEPT
                   !.wires[k].state = val,
                   !.nodes = MapSet(st.nodes,
                       [target EXCEPT !.inputs = setAt(target.inputs, w.targetPinIndex, val)])]

RECURSIVE propagate(_, _)
propagate(st, k) ==
    IF k > Len(st.wires) \/ st.threw THEN st
    ELSE propagate(propagateWire(st, k), k + 1)

(* a step that calls the code whether or not it parses *)
compileAnyway(code) == Some(code)

(* new Function('inputs', 'state', code): a body that does not parse throws *)
compile(code) == IF code.ok THEN Some(code) ELSE <<>>

cacheGet(cache, id) ==
    IF \E c \in cache : c.id = id THEN Some((CHOOSE c \in cache : c.id = id).fn) ELSE <<>>

mapInputs(node) ==
    LET i == node.inputs
        n == count(node.inputCount)
    IN IF IsSome(node.inputMapping)
       THEN LET m == The(node.inputMapping)
                pinsOf(port) == {p \in 1..Len(m) : m[p] = port}
                len == MaxOf({n} \cup {m[p] + 1 : p \in 1..Len(m)})
            IN [q \in 1..len |-> IF pinsOf(q - 1) = {} THEN FALSE
                                 ELSE at(i, MaxOf(pinsOf(q - 1)) - 1)]
       ELSE [q \in 1..MaxOf({n, Len(i)}) |-> at(i, q - 1)]

mapOutputs(node, outs) ==
    LET n == count(node.outputCount)
        bit(k) == k + 1 \in 1..Len(outs) /\ outs[k + 1] = 1
    IN IF IsSome(node.outputMapping)
       THEN LET m == The(node.outputMapping)
            IN [p \in 1..MaxOf({n, Len(m)}) |-> p <= Len(m) /\ bit(m[p])]
       ELSE [p \in 1..MaxOf({n, Len(outs)}) |-> bit(p - 1)]

bits(i) == [k \in 1..Len(i) |-> IF i[k] THEN 1 ELSE 0]

(* if (fn) { ... }: the node after the call of its function *)
applyFn(node, fn) ==
    LET store(result) == [node EXCEPT !.outputs = mapOutputs(node, result.outputs),
                                      !.internalState = Some(result.state)]
    IN IF IsSome(fn)
       THEN store(runCode(The(fn), mapInputs(node),
                          IF IsSome(node.internalState) THEN The(node.internalState)
                          ELSE <<>>))
       ELSE node

(* case 'IC' of the evaluation: the node and the cache after it *)
computeIC(node, cache) ==
    LET call(cached, fn) ==
            [node |-> applyFn(node, fn),
             cache |-> IF ~IsSome(cached) /\ IsSome(fn)
                       THEN cache \cup {[id |-> node.id, fn |-> The(fn)]} ELSE cache]
        lookup(cached) ==
            call(cached, IF IsSome(cached) THEN cached
                         ELSE compile(The(node.compiledFunction)))
        table(rows) ==
            IF rows # {}
            THEN [node EXCEPT !.outputs =
                     [k \in 1..Len((CHOOSE r \in rows : TRUE)[2]) |->
                         (CHOOSE r \in rows : TRUE)[2][k] = 1]]
            ELSE node
    IN IF IsSome(node.compiledFunction) THEN lookup(cacheGet(cache, node.id))
       ELSE [node |-> table({r \in node.truthTable : r[1] = bits(node.inputs)}),
             cache |-> cache]

(* a step whose evaluation phase makes every gate output low *)
computeLow(type, i) == FALSE

(* a step that evaluates every gate as an AND gate *)
computeAnd(type, i) == at(i, 0) /\ at(i, 1)

(* the gate cases of the evaluation *)
computeGate(type, i) ==
    IF type = "AND" THEN at(i, 0) /\ at(i, 1)
    ELSE IF type = "OR" THEN at(i, 0) \/ at(i, 1)
    ELSE IF type = "NOT" THEN ~at(i, 0)
    ELSE IF type = "NAND" THEN ~(at(i, 0) /\ at(i, 1))
    ELSE IF type = "XOR" THEN at(i, 0) # at(i, 1)
    ELSE at(i, 0)

GateTypes == {"AND", "OR", "NOT", "NAND", "XOR", "BUFFER"}

computeNode(node, cache) ==
    IF node.type \in GateTypes
    THEN [node |-> [node EXCEPT !.outputs = setAt(node.outputs, 0,
                                                 computeGate(node.type, node.inputs))],
          cache |-> cache]
    ELSE IF node.type = "IC" THEN computeIC(node, cache)
    ELSE [node |-> node, cache |-> cache]

(* an evaluation phase that propagates the wires again after every node *)
RECURSIVE computeChained(_, _)
computeChained(st, k) ==
    LET store(r) == [st EXCEPT !.nodes[k] = r.node, !.fnCache = r.cache]
    IN IF k > Len(st.nodes) THEN st
       ELSE computeChained(propagate(store(computeNode(st.nodes[k], st.fnCache)), 1), k + 1)

RECURSIVE computeLogic(_, _)
computeLogic(st, k) ==
    LET store(r) == [st EXCEPT !.nodes[k] = r.node, !.fnCache = r.cache]
    IN IF k > Len(st.nodes) THEN st
       ELSE computeLogic(store(computeNode(st.nodes[k], st.fnCache)), k + 1)

(* first phases that go on to evaluate node after node, each on the       *)
(* outputs of the nodes before it                                          *)
propagatedChained(e) ==
    computeChained(
        propagate([e EXCEPT !.nodes = resetInputs(updateClocks(e.nodes, e.tickCount))], 1), 1)

(* the engine after the first three phases of a step *)
propagated(e) ==
    propagate([e EXCEPT !.nodes = resetInputs(updateClocks(e.nodes, e.tickCount))], 1)

(* a tick that no gate holds back *)
ungated(e, timestamp) == FALSE

(* the two early returns of tick: idle, or too soon after the last step *)
gated(e, timestamp) ==
    \/ ~e.isRunning /\ timestamp # 0 - 1
    \/ timestamp # 0 - 1 /\ timestamp - e.lastTick < tickRate

tick(e, timestamp) ==
    LET compute(e2) == IF e2.threw THEN e2 ELSE computeLogic(e2, 1)
    IN IF gated(e, timestamp) THEN e
       ELSE compute(propagated([e EXCEPT !.lastTick = timestamp,
                                         !.tickCount = e.tickCount + 1]))

(* a toggle that leaves the switch as it is *)
unflipped(node) == node

(* node.outputs[0] = !node.outputs[0] *)
flipped(node) == [node EXCEPT !.outputs = setAt(node.outputs, 0, ~at(node.outputs, 0))]

toggleSwitch(e, nodeId) ==
    LET flip(node) == [e EXCEPT !.nodes = MapSet(e.nodes, flipped(node))]
        step(e1) == IF e1.isRunning THEN tick(e1, 0 - 1) ELSE e1
    IN IF HasNode(e.nodes, nodeId) /\ TypeOf(e.nodes, nodeId) = "SWITCH"
       THEN step(flip(GetNode(e.nodes, nodeId)))
       ELSE e

(* an updateIOMapping that assigns the port and does not move the other pin *)
assignPort(mapping, pinIndex, portIndex) == [mapping EXCEPT ![pinIndex + 1] = portIndex]

(* the swap both branches of updateIOMapping make on their mapping *)
remap(mapping, pinIndex, portIndex) ==
    LET oldPort == IF pinIndex + 1 \in 1..Len(mapping) THEN mapping[pinIndex + 1]
                   ELSE Undefined
        otherPinIndex == IndexOf(mapping, portIndex)
        swapped == IF otherPinIndex # 0 - 1 /\ otherPinIndex # pinIndex
                   THEN [mapping EXCEPT ![otherPinIndex + 1] = oldPort] ELSE mapping
    IN IF pinIndex + 1 <= Len(swapped) THEN [swapped EXCEPT ![pinIndex + 1] = portIndex]
       ELSE swapped \o Fill(pinIndex - Len(swapped), Undefined) \o <<portIndex>>

updateIOMapping(e, nodeId, type, pinIndex, portIndex) ==
    LET swap(node) ==
            IF type = "input"
            THEN [node EXCEPT !.inputMapping =
                     Some(remap(IF IsSome(node.inputMapping) THEN The(node.inputMapping)
                                ELSE Identity(count(node.inputCount)),
                                pinIndex, portIndex))]
            ELSE [node EXCEPT !.outputMapping =
                     Some(remap(IF IsSome(node.outputMapping) THEN The(node.outputMapping)
                                ELSE Identity(count(node.outputCount)),
                                pinIndex, portIndex))]
        update(e1) ==
            triggerUpdate([e1 EXCEPT !.nodes = MapSet(e1.nodes, swap(GetNode(e1.nodes, nodeId)))])
    IN IF ~HasNode(e.nodes, nodeId) \/ TypeOf(e.nodes, nodeId) # "IC" THEN e
       ELSE update(saveState(e))

-----------------------------------------------------------------------------
(* Canvas pointer handlers.  The pointer position is given by what the      *)
(* engine's hit tests answer for it: hit.pin is the result of findPinAt     *)
(* (<<>> for null), hit.node of findNodeAt and hit.wire of findWireAt       *)
(* (Absent for null).                                                       *)

Pin(nodeId, type, index) == [nodeId |-> nodeId, type |-> type, index |-> index]

covers(n, pos) ==
    LET d == getNodeDimensions(n)
    IN /\ pos.x >= n.position.x - d.w \div 2 /\ pos.x <= n.position.x + d.w \div 2
       /\ pos.y >= n.position.y - d.h \div 2 /\ pos.y <= n.position.y + d.h \div 2

(* the last node of the map that covers pos *)
findNodeAt(e, pos) ==
    LET hits == {i \in 1..Len(e.nodes) : covers(e.nodes[i], pos)}
    IN IF hits = {} THEN Absent ELSE e.nodes[MaxOf(hits)].id

Hit(pin, node, wire) == [pin |-> pin, node |-> node, wire |-> wire]

handlePointerDown(e, button, worldPos, hit, shiftKey, tool, activeTemplate) ==
    LET drag(sel) ==
            triggerUpdate([e EXCEPT
                !.selectedNodeIds = sel, !.interactionMode = "DRAG_NODE",
                !.dragStart = worldPos,
                !.dragOffset = [i \in 1..Len(sel) |->
                    IF HasNode(e.nodes, sel[i])
                    THEN Some(shift(GetNode(e.nodes, sel[i]).position,
                                    0 - worldPos.x, 0 - worldPos.y))
                    ELSE <<>>]])
        withMembers(sel, members) ==
            drag(sel \o SelectSeq(idsOf(members), LAMBDA id : id \notin Range(sel)))
        press(nodeId) ==
            withMembers(SetAdd(IF ~shiftKey /\ nodeId \notin Range(e.selectedNodeIds)
                               THEN <<>> ELSE e.selectedNodeIds,
                               nodeId),
                        IF TypeOf(e.nodes, nodeId) = "GROUP"
                        THEN membersOf(e.nodes, nodeId) ELSE <<>>)
    IN IF button = 1 THEN [e EXCEPT !.interactionMode = "PAN"]
       ELSE IF button = 2 THEN e
       ELSE IF IsSome(hit.pin) /\ The(hit.pin).type = "output"
            THEN [e EXCEPT !.wiringStart = hit.pin, !.interactionMode = "WIRING"]
       ELSE IF hit.node # Absent THEN press(hit.node)
       ELSE IF hit.wire # Absent
            THEN triggerUpdate(
                     IF shiftKey
                     THEN [e EXCEPT !.selectedWireIds =
                              IF hit.wire \in e.selectedWireIds
                              THEN e.selectedWireIds \ {hit.wire}
                              ELSE e.selectedWireIds \cup {hit.wire}]
                     ELSE [e EXCEPT !.selectedNodeIds = <<>>, !.selectedWireIds = {hit.wire}])
       ELSE IF tool # "SELECT"
            THEN addNode(e, tool, worldPos,
                         IF tool = "IC" THEN activeTemplate ELSE <<>>)
       ELSE triggerUpdate([e EXCEPT
                !.interactionMode = "SELECT_AREA",
                !.selectionStart = worldPos, !.selectionCurrent = worldPos,
                !.selectedNodeIds = <<>>, !.selectedWireIds = {}])

(* Math.round(v / 10) * 10 *)
snap(v) == ((v + P(5)) \div P(10)) * P(10)

handlePointerMove(e, worldPos, pin, dx, dy) ==
    LET e1 == [e EXCEPT !.hoveredPin = pin]
    IN IF e1.interactionMode = "DRAG_NODE"
       THEN [e1 EXCEPT !.nodes = [i \in 1..Len(e1.nodes) |->
                LET k == IndexOf(e1.selectedNodeIds, e1.nodes[i].id) + 1
                IN IF k >= 1 /\ k <= Len(e1.dragOffset) /\ IsSome(e1.dragOffset[k])
                   THEN [e1.nodes[i] EXCEPT !.position =
                            [x |-> snap(worldPos.x + The(e1.dragOffset[k]).x),
                             y |-> snap(worldPos.y + The(e1.dragOffset[k]).y)]]
                   ELSE e1.nodes[i]]]
       ELSE IF e1.interactionMode = "SELECT_AREA"
            THEN [e1 EXCEPT !.selectionCurrent = worldPos]
       ELSE IF e1.interactionMode = "PAN"
            THEN [e1 EXCEPT !.viewport.x = e1.viewport.x + dx,
                            !.viewport.y = e1.viewport.y + dy]
       ELSE e1

(* the wire a completed wiring gesture pushes *)
newWire(e, target) ==
    [id |-> e.nextId,
     sourceNodeId |-> The(e.wiringStart).nodeId, sourcePinIndex |-> The(e.wiringStart).index,
     targetNodeId |-> target.nodeId, targetPinIndex |-> target.index, state |-> FALSE]

pointerUpDrag(e, worldPos) ==
    LET dx == worldPos.x - e.dragStart.x
        dy == worldPos.y - e.dragStart.y
    IN saveState(IF dx * dx + dy * dy < P(5) * P(5) /\ Len(e.selectedNodeIds) = 1
                 THEN toggleSwitch(e, e.selectedNodeIds[1]) ELSE e)

pointerUpWiring(e) ==
    LET target == e.hoveredPin
        clear(e1) == [e1 EXCEPT !.wiringStart = <<>>]
    IN clear(IF /\ IsSome(target) /\ The(target).type = "input"
                /\ The(target).nodeId # The(e.wiringStart).nodeId
             THEN tick(saveState([e EXCEPT !.wires = Append(e.wires, newWire(e, The(target))),
                                           !.nextId = e.nextId + 1]), 0 - 1)
             ELSE e)

pointerUpSelectArea(e) ==
    LET x1 == MinOf({e.selectionStart.x, e.selectionCurrent.x})
        y1 == MinOf({e.selectionStart.y, e.selectionCurrent.y})
        x2 == MaxOf({e.selectionStart.x, e.selectionCurrent.x})
        y2 == MaxOf({e.selectionStart.y, e.selectionCurrent.y})
    IN triggerUpdate([e EXCEPT
           !.selectedNodeIds = idsOf(SelectSeq(e.nodes, LAMBDA n :
                                   /\ n.position.x >= x1 /\ n.position.x <= x2
                                   /\ n.position.y >= y1 /\ n.position.y <= y2)),
           !.selectedWireIds = {}])

handlePointerUp(e, worldPos) ==
    LET finish(e2) == [e2 EXCEPT !.interactionMode = "NONE"]
        release(e1) ==
            finish(IF e1.interactionMode = "WIRING" /\ IsSome(e1.wiringStart)
                   THEN pointerUpWiring(e1)
                   ELSE IF e1.interactionMode = "SELECT_AREA" THEN pointerUpSelectArea(e1)
                   ELSE e1)
    IN release(IF e.interactionMode = "DRAG_NODE" THEN pointerUpDrag(e, worldPos) ELSE e)

(* useEngine.toggleSimulation *)
toggleSimulation(e) == [e EXCEPT !.isRunning = ~e.isRunning]

-----------------------------------------------------------------------------
(* IC library (storage/libraryStore.ts).  The object store is the sequence  *)
(* of its items in creation order; its key path is id.                      *)

(* db.put('library', item) *)
put(store, item) ==
    IF \E i \in 1..Len(store) : store[i].id = item.id
    THEN [i \in 1..Len(store) |-> IF store[i].id = item.id THEN item ELSE store[i]]
    ELSE Append(store, item)

(* the item literal of saveToLibrary *)
libraryItem(id, node) ==
    [id |-> id,
     name |-> IF node.label = "" THEN "Untitled Chip" ELSE node.label,
     inputCount |-> IF node.inputCount = NoNum THEN 0 ELSE node.inputCount,
     outputCount |-> IF node.outputCount = NoNum THEN 0 ELSE node.outputCount,
     width |-> IF node.width = NoNum THEN P(100) ELSE node.width,
     height |-> IF node.height = NoNum THEN P(100) ELSE node.height,
     truthTable |-> node.truthTable,
     compiledFunction |-> node.compiledFunction,
     internals |-> node.internals]

(* the store after saveToLibrary(node) with generateId() = id; a node that *)
(* is not an IC throws before anything is written                          *)
saveToLibrary(store, id, node) ==
    IF node.type # "IC" THEN store ELSE put(store, libraryItem(id, node))

deleteFromLibrary(store, id) == SelectSeq(store, LAMBDA item : item.id # id)

libraryItemToNodeTemplate(item) ==
    [label |-> item.name, inputCount |-> item.inputCount, outputCount |-> item.outputCount,
     width |-> item.width, height |-> item.height, truthTable |-> item.truthTable,
     compiledFunction |-> item.compiledFunction, internals |-> item.internals]

(* the for loop of importLibraryFromJSON from entry k on.  An entry is     *)
(* <<item>> for an object and <<>> for a value that is not an object, on   *)
(* which the assignment item.id = ... throws; reject is the index of the   *)
(* entry whose put is rejected by the database, 0 when none is.            *)
RECURSIVE importLoop(_, _, _, _, _)
importLoop(store, id, entries, k, reject) ==
    IF k > Len(entries)
    THEN [store |-> store, nextId |-> id, threw |-> FALSE, imported |-> k - 1]
    ELSE IF ~IsSome(entries[k])
    THEN [store |-> store, nextId |-> id, threw |-> TRUE, imported |-> k - 1]
    ELSE IF k = reject
    THEN [store |-> store, nextId |-> id + 1, threw |-> TRUE, imported |-> k - 1]
    ELSE importLoop(put(store, [The(entries[k]) EXCEPT !.id = id]), id + 1,
                    entries, k + 1, reject)

(* importLibraryFromJSON(json): JSON.parse throws on text that is not JSON, *)
(* for...of throws on a value that is not iterable                         *)
importLibraryFromJSON(store, id, doc, reject) ==
    IF ~doc.parses \/ ~doc.iterable
    THEN [store |-> store, nextId |-> id, threw |-> TRUE, imported |-> 0]
    ELSE importLoop(store, id, doc.entries, 1, reject)

-----------------------------------------------------------------------------
(* Actions *)

(* what a call leaves behind in the engine's fields, the fields of a gesture *)
(* in progress aside                                                       *)
Settled(e) ==
    [e EXCEPT !.dragStart = Eng.dragStart, !.dragOffset = Eng.dragOffset,
              !.selectionStart = Eng.selectionStart,
              !.selectionCurrent = Eng.selectionCurrent]

(* the engine becomes e by operation op; a call that changes nothing (an   *)
(* early return) is a stuttering step                                      *)
SetEngine(e, op) ==
    /\ Settled(e) # Eng
    /\ UNCHANGED dbVars
    /\ gesture' = gesture
    /\ now' = now
    /\ lastStep' = lastStep
    /\ nodes' = e.nodes
    /\ wires' = e.wires
    /\ viewport' = e.viewport
    /\ selectedNodeIds' = e.selectedNodeIds
    /\ selectedWireIds' = e.selectedWireIds
    /\ interactionMode' = e.interactionMode
    /\ wiringStart' = e.wiringStart
    /\ hoveredPin' = e.hoveredPin
    /\ isRunning' = e.isRunning
    /\ lastTick' = e.lastTick
    /\ tickCount' = e.tickCount
    /\ fnCache' = e.fnCache
    /\ clipboard' = e.clipboard
    /\ historyStack' = e.historyStack
    /\ redoStack' = e.redoStack
    /\ nextId' = e.nextId
    /\ library' = library
    /\ lastOp' = op
    /\ pre' = Eng
    /\ steps' = steps + 1

StartFrom(e) ==
    /\ nodes = e.nodes
    /\ wires = e.wires
    /\ viewport = e.viewport
    /\ selectedNodeIds = e.selectedNodeIds
    /\ selectedWireIds = e.selectedWireIds
    /\ interactionMode = e.interactionMode
    /\ wiringStart = e.wiringStart
    /\ hoveredPin = e.hoveredPin
    /\ isRunning = e.isRunning
    /\ lastTick = e.lastTick
    /\ tickCount = e.tickCount
    /\ fnCache = e.fnCache
    /\ clipboard = e.clipboard
    /\ historyStack = e.historyStack
    /\ redoStack = e.redoStack
    /\ nextId = e.nextId
    /\ library = <<>>
    /\ gesture = [dragStart |-> e.dragStart, dragOffset |-> e.dragOffset,
                  selectionStart |-> e.selectionStart,
                  selectionCurrent |-> e.selectionCurrent, pin |-> <<>>]
    /\ now = 0
    /\ lastStep = <<>>
    /\ dbInstance = Absent
    /\ calls = [c \in Callers |-> [at |-> "idle", db |-> Absent]]
    /\ opened = 0
    /\ closed = 0
    /\ lastOp = "constructor"
    /\ pre = e
    /\ steps = 0

(* Inputs of the actions *)

AddTypes == {"CLOCK", "NOT", "IC"}
AddPos == [x |-> P(300), y |-> P(300)]

(* a library item as libraryItemToNodeTemplate returns it: the truth table *)
(* of a full adder, <<a, b, c>> to <<sum, carry>>                          *)
TableTemplate ==
    [label |-> "Lib", inputCount |-> 3, outputCount |-> 2, width |-> P(100), height |-> P(80),
     truthTable |-> {<<<<a, b, c>>, <<(a + b + c) % 2, (a + b + c) \div 2>>>> :
                        a \in {0, 1}, b \in {0, 1}, c \in {0, 1}},
     compiledFunction |-> <<>>, internals |-> <<>>]

Templates == {<<>>, <<TableTemplate>>}

(* a library item whose compiledFunction is not the body of a function: *)
(* new Function throws a SyntaxError on it                              *)
BrokenTemplate ==
    [label |-> "Bad", inputCount |-> 1, outputCount |-> 1, width |-> P(100), height |-> P(60),
     truthTable |-> {},
     compiledFunction |-> <<[ok |-> FALSE, sn |-> <<>>,
                             outs |-> <<[k |-> "in", a |-> 0, b |-> 0]>>]>>,
     internals |-> <<>>]

Areas == {[from |-> [x |-> 0, y |-> 0], to |-> [x |-> P(600), y |-> P(400)]],
          [from |-> [x |-> P(50), y |-> P(140)], to |-> [x |-> P(350), y |-> P(250)]]}

NodeData == {[label |-> "X"], [inputCount |-> 3], [outputCount |-> 2]}

InputPinsOf(n) == {Pin(n.id, "input", k) : k \in 0..(getInputCount(n.type, Some(n)) - 1)}

OutputPinsOf(n) == {Pin(n.id, "output", k) : k \in 0..(getOutputCount(n.type, Some(n)) - 1)}

-----------------------------------------------------------------------------
(* Canvas gestures: a pointer-down, a pointer-move and a pointer-up handled *)
(* in a row                                                                 *)

(* press and release at pos, where the hit tests answer hit *)
click(e, pos, hit, shiftKey, tool, template) ==
    handlePointerUp(
        handlePointerMove(handlePointerDown(e, 0, pos, hit, shiftKey, tool, template),
                          pos, <<>>, 0, 0),
        pos)

(* press on the output pin src, release over the input pin tgt *)
dragWire(e, src, tgt) ==
    handlePointerUp(
        handlePointerMove(handlePointerDown(e, 0, [x |-> 0, y |-> 0],
                                            Hit(Some(src), Absent, Absent),
                                            FALSE, "SELECT", <<>>),
                          [x |-> 0, y |-> 0], Some(tgt), 0, 0),
        [x |-> 0, y |-> 0])

(* press on empty canvas at area.from, release at area.to *)
dragArea(e, area) ==
    handlePointerUp(
        handlePointerMove(handlePointerDown(e, 0, area.from, Hit(<<>>, Absent, Absent),
                                            FALSE, "SELECT", <<>>),
                          area.to, <<>>, 0, 0),
        area.to)

-----------------------------------------------------------------------------
(* Circuits built by the operations above from the constructed engine.      *)
(* The constructor's nodes have the ids 1 (SWITCH), 2 (SWITCH), 3 (AND) and *)
(* 4 (LIGHT).                                                               *)

(* both switches wired to the AND gate, the AND gate to the light *)
Wired ==
    dragWire(dragWire(dragWire(constructor,
                               Pin(1, "output", 0), Pin(3, "input", 0)),
                      Pin(2, "output", 0), Pin(3, "input", 1)),
             Pin(3, "output", 0), Pin(4, "input", 0))

(* the wired circuit with the second switch wired to AND input 0 as well *)
DoubleDriven == dragWire(Wired, Pin(2, "output", 0), Pin(3, "input", 0))

(* a node of the given type placed with the toolbar tool, fed by both switches *)
GateCircuit(type) ==
    LET feed(e, id) ==
            IF getInputCount(type, <<>>) = 2
            THEN dragWire(dragWire(e, Pin(1, "output", 0), Pin(id, "input", 0)),
                          Pin(2, "output", 0), Pin(id, "input", 1))
            ELSE IF getInputCount(type, <<>>) = 1
                 THEN dragWire(e, Pin(1, "output", 0), Pin(id, "input", 0))
            ELSE dragWire(e, Pin(id, "output", 0), Pin(3, "input", 0))
    IN feed(click(constructor, AddPos, Hit(<<>>, Absent, Absent), FALSE, type, <<>>),
            constructor.nextId)

(* the second switch and the AND gate of the wired circuit packed into a chip *)
Packed ==
    packGroupToIC(createGroupFromSelection(
        dragArea(Wired, [from |-> [x |-> P(50), y |-> P(140)],
                         to |-> [x |-> P(350), y |-> P(250)]])))

(* the whole wired circuit packed into a chip *)
PackedAll ==
    packGroupToIC(createGroupFromSelection(
        dragArea(Wired, [from |-> [x |-> 0, y |-> 0], to |-> [x |-> P(600), y |-> P(400)]])))

(* the wired circuit with a gate of the given type, fed by the switches, in *)
(* front of input 0 of the AND gate                                        *)
TwoLevel(type) ==
    dragWire(dragWire(dragWire(GateCircuit(type),
                               Pin(constructor.nextId, "output", 0), Pin(3, "input", 0)),
                      Pin(2, "output", 0), Pin(3, "input", 1)),
             Pin(3, "output", 0), Pin(4, "input", 0))

(* the circuit e packed into a chip as a whole, and two new switches placed *)
(* with the toolbar tool and wired to the chip's input pins 0 and 1         *)
Bench(e) ==
    LET wire(e1, ic, sw) ==
            dragWire(dragWire(e1, Pin(sw, "output", 0), Pin(ic, "input", 0)),
                     Pin(sw + 1, "output", 0), Pin(ic, "input", 1))
        place2(e1) ==
            click(click(e1, [x |-> P(700), y |-> P(100)], Hit(<<>>, Absent, Absent),
                        FALSE, "SWITCH", <<>>),
                  [x |-> P(700), y |-> P(200)], Hit(<<>>, Absent, Absent),
                  FALSE, "SWITCH", <<>>)
        fit(packed) == wire(place2(packed), firstSelected(packed, "IC"), packed.nextId)
    IN fit(packGroupToIC(createGroupFromSelection(
               dragArea(e, [from |-> [x |-> 0, y |-> 0], to |-> [x |-> P(600), y |-> P(400)]]))))

(* the wired circuit with a chip of broken code placed with the IC tool and *)
(* fed by the first switch                                                 *)
BrokenBench ==
    dragWire(click(Wired, AddPos, Hit(<<>>, Absent, Absent), FALSE, "IC", <<BrokenTemplate>>),
             Pin(1, "output", 0), Pin(Wired.nextId, "input", 0))

(* the engine after n edits of the first switch's label in the properties *)
(* panel, each edit to a label other than the one before                  *)
RECURSIVE Relabelled(_, _)
Relabelled(e, n) ==
    IF n = 0 \/ ~HasNode(e.nodes, 1) THEN e
    ELSE Relabelled(updateNodeData(e, 1, [label |-> IF n % 2 = 0 THEN "A" ELSE "B"]), n - 1)

(* a long session: the AND gate clicked, then n label edits *)
Aged(n) ==
    Relabelled(click(constructor, constructor.nodes[3].position, Hit(<<>>, 3, Absent),
                     FALSE, "SELECT", <<>>),
               n)

(* two NAND gates placed with the toolbar tool beside the constructor's     *)
(* nodes and cross-coupled: SWITCH 1 is the set input, SWITCH 2 the reset  *)
(* input (both active low), the first NAND drives the LIGHT                *)
LatchCircuit ==
    LET cross(e, n1, n2) ==
            dragWire(dragWire(dragWire(dragWire(dragWire(e,
                Pin(1, "output", 0), Pin(n1, "input", 0)),
                Pin(n2, "output", 0), Pin(n1, "input", 1)),
                Pin(n1, "output", 0), Pin(n2, "input", 0)),
                Pin(2, "output", 0), Pin(n2, "input", 1)),
                Pin(n1, "output", 0), Pin(4, "input", 0))
    IN cross(click(click(constructor, [x |-> P(300), y |-> P(50)], Hit(<<>>, Absent, Absent),
                         FALSE, "NAND", <<>>),
                   [x |-> P(300), y |-> P(250)], Hit(<<>>, Absent, Absent),
                   FALSE, "NAND", <<>>),
             constructor.nextId, constructor.nextId + 1)

(* the two-level circuit with a NOT gate packed as a whole: the chip's    *)
(* output is (NOT input 0) AND input 1                                   *)
PackedNot ==
    packGroupToIC(createGroupFromSelection(
        dragArea(TwoLevel("NOT"),
                 [from |-> [x |-> 0, y |-> 0], to |-> [x |-> P(600), y |-> P(400)]])))

(* the wired circuit with the first switch wired to the light as well *)
Crossed == dragWire(Wired, Pin(1, "output", 0), Pin(4, "input", 0))

(* that circuit with both switches on, its second switch and AND gate      *)
(* packed into a chip once the light is lit, and the chip stepped once     *)
LitChip ==
    LET part == [from |-> [x |-> P(50), y |-> P(140)], to |-> [x |-> P(350), y |-> P(250)]]
        lit == tick(tick(toggleSwitch(toggleSwitch(Crossed, 1), 2), 0 - 1), 0 - 1)
    IN tick(packGroupToIC(createGroupFromSelection(dragArea(lit, part))), 0 - 1)

(* the wired circuit with a group around the second switch and the AND     *)
(* gate, a group around the first switch, and everything selected          *)
TwoGroups ==
    LET whole == [from |-> [x |-> 0, y |-> 0], to |-> [x |-> P(600), y |-> P(400)]]
        part == [from |-> [x |-> P(50), y |-> P(140)], to |-> [x |-> P(350), y |-> P(250)]]
        alone(e) == createGroupFromSelection(
                        click(e, e.nodes[1].position, Hit(<<>>, 1, Absent),
                              FALSE, "SELECT", <<>>))
    IN dragArea(alone(createGroupFromSelection(dragArea(Wired, part))), whole)

(* the chip (NOT input 0) AND input 1 with two switches wired to its input *)
(* pins and a light wired to its output pin, placed with the toolbar       *)
(* tools; the chip is selected                                             *)
NestedBench ==
    LET at3(e, tool, px, py) ==
            click(e, [x |-> P(px), y |-> P(py)], Hit(<<>>, Absent, Absent), FALSE, tool, <<>>)
        wire(e, ic, first) ==
            dragWire(dragWire(dragWire(e,
                Pin(first, "output", 0), Pin(ic, "input", 0)),
                Pin(first + 1, "output", 0), Pin(ic, "input", 1)),
                Pin(ic, "output", 0), Pin(first + 2, "input", 0))
        pick(e, ic) == click(e, GetNode(e.nodes, ic).position, Hit(<<>>, ic, Absent),
                             FALSE, "SELECT", <<>>)
        fit(packed, ic) ==
            pick(wire(at3(at3(at3(packed, "SWITCH", 100, 100), "SWITCH", 100, 300),
                          "LIGHT", 500, 200),
                      ic, packed.nextId),
                 ic)
    IN fit(PackedNot, firstSelected(PackedNot, "IC"))

(* the wired circuit without its first switch, with a group around the AND *)
(* gate and the light: the group and its two members are selected          *)
Grouped ==
    LET around == [from |-> [x |-> P(250), y |-> P(100)], to |-> [x |-> P(550), y |-> P(200)]]
        without(e) == deleteSelected(click(e, e.nodes[1].position, Hit(<<>>, 1, Absent),
                                           FALSE, "SELECT", <<>>))
    IN createGroupFromSelection(dragArea(without(Wired), around))

(* the wired circuit with both switches on, stepped until the light is lit *)
Lit == tick(tick(toggleSwitch(toggleSwitch(Wired, 1), 2), 0 - 1), 0 - 1)

(* a library chip placed and selected *)
Chip ==
    click(addNode(constructor, "IC", AddPos, <<TableTemplate>>), AddPos,
          Hit(<<>>, constructor.nextId, Absent), FALSE, "SELECT", <<>>)

-----------------------------------------------------------------------------
(* Actions: one engine method or one canvas gesture each *)

AddNode ==
    \E type \in AddTypes, template \in Templates :
        /\ Len(nodes) < MaxNodes
        /\ IsSome(template) => type = "IC"
        /\ SetEngine(addNode(Eng, type, AddPos, template), "addNode")

(* press and release on the centre of a node *)
ClickNode ==
    \E i \in 1..Len(nodes) :
        SetEngine(click(Eng, nodes[i].position,
                        Hit(<<>>, findNodeAt(Eng, nodes[i].position), Absent),
                        FALSE, "SELECT", <<>>),
                  "click")

(* press and release on a wire, with or without the shift key *)
ClickWire ==
    \E i \in 1..Len(wires), shiftKey \in BOOLEAN :
        /\ wireGuard(nodes, wires[i])
        /\ SetEngine(click(Eng, [x |-> 0, y |-> 0], Hit(<<>>, Absent, wires[i].id),
                           shiftKey, "SELECT", <<>>),
                     "clickWire")

(* drag a selection rectangle over empty canvas *)
SelectArea ==
    \E area \in Areas :
        /\ findNodeAt(Eng, area.from) = Absent
        /\ SetEngine(dragArea(Eng, area), "selectArea")

(* drag from an output pin to an input pin *)
Connect ==
    \E a \in Range(nodes), b \in Range(nodes) :
        \E src \in OutputPinsOf(a), tgt \in InputPinsOf(b) :
            /\ Len(wires) < MaxWires
            /\ SetEngine(dragWire(Eng, src, tgt), "connect")

DeleteSelected == SetEngine(deleteSelected(Eng), "deleteSelected")

DuplicateSelected ==
    /\ Len(nodes) + Len(selectedNodeIds) <= MaxNodes
    /\ SetEngine(duplicateSelected(Eng), "duplicateSelected")

Copy == SetEngine(copy(Eng), "copy")

Cut == SetEngine(cut(Eng), "cut")

Paste ==
    /\ IsSome(clipboard) => Len(nodes) + Len(The(clipboard).nodes) <= MaxNodes
    /\ SetEngine(paste(Eng), "paste")

CreateGroupFromSelection ==
    SetEngine(createGroupFromSelection(Eng), "createGroupFromSelection")

UngroupSelected == SetEngine(ungroupSelected(Eng), "ungroupSelected")

PackGroupToIC == SetEngine(packGroupToIC(Eng), "packGroupToIC")

UnpackICToGroup == SetEngine(unpackICToGroup(Eng), "unpackICToGroup")

(* the properties panel edits the selected node *)
UpdateNodeData ==
    \E id \in Range(selectedNodeIds), data \in NodeData :
        /\ "label" \notin DOMAIN data => TypeOf(nodes, id) = "IC"
        /\ SetEngine(updateNodeData(Eng, id, data), "updateNodeData")

(* the properties panel offers every pin and every port of the selected chip *)
UpdateIOMapping ==
    \E id \in Range(selectedNodeIds), type \in {"input", "output"} :
        /\ TypeOf(nodes, id) = "IC"
        /\ LET n == IF type = "input" THEN getInputCount("IC", Some(GetNode(nodes, id)))
                    ELSE getOutputCount("IC", Some(GetNode(nodes, id)))
           IN \E pinIndex \in 0..(n - 1), portIndex \in 0..(n - 1) :
                  SetEngine(updateIOMapping(Eng, id, type, pinIndex, portIndex),
                            "updateIOMapping")

Undo == SetEngine(undo(Eng), "undo")

Redo == SetEngine(redo(Eng), "redo")

ToggleSwitch ==
    \E id \in NodeIds(nodes) :
        /\ TypeOf(nodes, id) = "SWITCH"
        /\ SetEngine(toggleSwitch(Eng, id), "toggleSwitch")

(* a forced simulation step *)
Tick == SetEngine(tick(Eng, 0 - 1), "tick")

ToggleSimulation == SetEngine(toggleSimulation(Eng), "toggleSimulation")

(* the time between the last simulation step and an animation frame, in ms *)
FrameGaps == {16, 99, 100, 116}

(* an animation frame of the canvas loop: engine.tick(time) *)
Frame ==
    \E gap \in FrameGaps : SetEngine(tick(Eng, lastTick + gap), "frame")

(* the library panel and the import dialog.  state.selectedNode is the    *)
(* node of a selection of one                                              *)
SetLibrary(lib, id, op) ==
    /\ library' = lib
    /\ nextId' = id
    /\ lastOp' = op
    /\ pre' = Eng
    /\ steps' = steps + 1
    /\ UNCHANGED <<nodes, wires, viewport, selectedNodeIds, selectedWireIds,
                   interactionMode, wiringStart, hoveredPin, isRunning, lastTick,
                   tickCount, fnCache, clipboard, historyStack, redoStack, gesture,
                   now, lastStep, dbInstance, calls, opened, closed>>

SaveToLibrary ==
    /\ Len(selectedNodeIds) = 1
    /\ TypeOf(nodes, selectedNodeIds[1]) = "IC"
    /\ Len(library) < MaxItems
    /\ SetLibrary(saveToLibrary(library, nextId, GetNode(nodes, selectedNodeIds[1])),
                  nextId + 1, "saveToLibrary")

DeleteFromLibrary ==
    \E k \in 1..Len(library) :
        SetLibrary(deleteFromLibrary(library, library[k].id), nextId, "deleteFromLibrary")

(* files offered to the import: text that is not JSON, a JSON object, and  *)
(* arrays of exported items and null                                       *)
Exported == {libraryItem(Absent, GetNode(e.nodes, firstSelected(e, "IC"))) : e \in {Chip, PackedAll}}

Documents ==
    {[parses |-> FALSE, iterable |-> FALSE, entries |-> <<>>],
     [parses |-> TRUE, iterable |-> FALSE, entries |-> <<>>]}
    \cup {[parses |-> TRUE, iterable |-> TRUE, entries |-> es] :
             es \in {<<>>} \cup {<<Some(a)>> : a \in Exported}
                       \cup {<<Some(a), Some(b)>> : a \in Exported, b \in Exported}
                       \cup {<<Some(a), <<>>>> : a \in Exported}
                       \cup {<<<<>>, Some(a)>> : a \in Exported}}

ImportLibraryFromJSON ==
    \E doc \in Documents :
        \E reject \in 0..Len(doc.entries) :
            /\ Len(library) + Len(doc.entries) <= MaxItems
            /\ LET done(r) ==
                       SetLibrary(r.store, r.nextId,
                                  IF r.threw THEN "importLibraryFromJSON throws"
                                  ELSE "importLibraryFromJSON")
               IN done(importLibraryFromJSON(library, nextId, doc, reject))

(* handleSelectFromLibrary, then a click on empty canvas with the IC tool *)
PlaceFromLibrary ==
    \E k \in 1..Len(library) :
        /\ Len(nodes) < MaxNodes
        /\ findNodeAt(Eng, AddPos) = Absent
        /\ SetEngine(click(Eng, AddPos, Hit(<<>>, Absent, Absent), FALSE, "IC",
                           Some(libraryItemToNodeTemplate(library[k]))),
                     "placeFromLibrary")

(* the code bodies updateNodeData is given: no code, and the code of the   *)
(* chip that packs the whole wired circuit                                 *)
Codes == {<<>>, GetNode(PackedAll.nodes, firstSelected(PackedAll, "IC")).compiledFunction}

(* updateNodeData(id, { compiledFunction }) on the selected chip *)
UpdateCode ==
    \E id \in Range(selectedNodeIds), code \in Codes :
        /\ TypeOf(nodes, id) = "IC"
        /\ SetEngine(updateNodeData(Eng, id, [compiledFunction |-> code]), "updateNodeData")

(* an animation frame of the canvas loop at its time on the page's clock: *)
(* engine.tick(time), gap ms after the frame before                        *)
AnimationFrame ==
    \E gap \in FrameGaps :
        LET frame(e, time) ==
                /\ now' = time
                /\ lastStep' = IF e.tickCount # tickCount THEN <<time>> ELSE lastStep
                /\ nodes' = e.nodes
                /\ wires' = e.wires
                /\ lastTick' = e.lastTick
                /\ tickCount' = e.tickCount
                /\ fnCache' = e.fnCache
                /\ lastOp' = IF e.tickCount # tickCount THEN "animationFrame" ELSE "idleFrame"
                /\ pre' = Eng
                /\ steps' = steps + 1
                /\ UNCHANGED <<viewport, selectedNodeIds, selectedWireIds, interactionMode,
                               wiringStart, hoveredPin, isRunning, clipboard, historyStack,
                               redoStack, nextId, library, gesture, dbInstance,
                               calls, opened, closed>>
        IN frame(tick(Eng, now + gap), now + gap)

(* pointer events on the canvas, one handler each.  The engine keeps the  *)
(* fields of the gesture in progress between the events; gesture.pin is   *)
(* what findPinAt answers for the position of the latest event            *)
Live ==
    [Eng EXCEPT !.dragStart = gesture.dragStart, !.dragOffset = gesture.dragOffset,
                !.selectionStart = gesture.selectionStart,
                !.selectionCurrent = gesture.selectionCurrent]

(* the positions the pointer is put on: empty canvas, the centre of a     *)
(* node, an output pin and an input pin                                   *)
Places ==
    {[pos |-> AddPos, pin |-> <<>>, node |-> Absent]}
    \cup {[pos |-> nodes[i].position, pin |-> <<>>, node |-> findNodeAt(Eng, nodes[i].position)] :
             i \in {j \in 1..Len(nodes) : nodes[j].type \in {"SWITCH", "AND"}}}
    \cup {[pos |-> nodes[i].position, pin |-> <<Pin(nodes[i].id, "output", 0)>>,
            node |-> nodes[i].id] :
             i \in {j \in 1..Len(nodes) : nodes[j].id \in {1, 3}}}
    \cup {[pos |-> nodes[i].position, pin |-> <<Pin(nodes[i].id, "input", 0)>>,
            node |-> nodes[i].id] :
             i \in {j \in 1..Len(nodes) : nodes[j].id \in {3, 4}}}

SetPointer(e, pin, op) ==
    /\ gesture' = [dragStart |-> e.dragStart, dragOffset |-> e.dragOffset,
                   selectionStart |-> e.selectionStart,
                   selectionCurrent |-> e.selectionCurrent, pin |-> pin]
    /\ nodes' = e.nodes
    /\ wires' = e.wires
    /\ viewport' = e.viewport
    /\ selectedNodeIds' = e.selectedNodeIds
    /\ selectedWireIds' = e.selectedWireIds
    /\ interactionMode' = e.interactionMode
    /\ wiringStart' = e.wiringStart
    /\ hoveredPin' = e.hoveredPin
    /\ isRunning' = e.isRunning
    /\ lastTick' = e.lastTick
    /\ tickCount' = e.tickCount
    /\ fnCache' = e.fnCache
    /\ clipboard' = e.clipboard
    /\ historyStack' = e.historyStack
    /\ redoStack' = e.redoStack
    /\ nextId' = e.nextId
    /\ lastOp' = op
    /\ pre' = Eng
    /\ steps' = steps + 1
    /\ UNCHANGED <<library, now, lastStep, dbInstance, calls, opened, closed>>

(* onPointerDown with the left or the middle button *)
PointerDown ==
    \E spot \in Places, button \in {0, 1} :
        SetPointer(handlePointerDown(Live, button, spot.pos,
                                     Hit(spot.pin, spot.node, Absent),
                                     FALSE, "SELECT", <<>>),
                   spot.pin, "pointerDown")

(* onPointerMove *)
PointerMove ==
    \E spot \in Places :
        SetPointer(handlePointerMove(Live, spot.pos, spot.pin, 0, 0),
                   spot.pin, "pointerMove")

(* onPointerUp *)
PointerUp ==
    \E spot \in Places :
        SetPointer(handlePointerUp(Live, spot.pos), spot.pin, "pointerUp")

(* storage/db.ts.  A connection is the number of the openDB call that     *)
(* made it; a getDB() call is "idle" before it is made, "opening" while   *)
(* its openDB promise is pending, "returned" once its own promise is      *)
(* resolved with a connection and "resumed" when its caller's await has   *)
(* the connection in hand                                                  *)
SetStorage(inst, cs, opens, closes, op) ==
    /\ dbInstance' = inst
    /\ calls' = cs
    /\ opened' = opens
    /\ closed' = closes
    /\ lastOp' = op
    /\ pre' = Eng
    /\ steps' = steps + 1
    /\ UNCHANGED <<nodes, wires, viewport, selectedNodeIds, selectedWireIds,
                   interactionMode, wiringStart, hoveredPin, isRunning, lastTick,
                   tickCount, fnCache, clipboard, historyStack, redoStack, nextId,
                   library, gesture, now, lastStep>>

(* getDB() up to its await: the cached connection, or a call of openDB *)
getDB(inst, opens) ==
    IF inst # Absent
    THEN [at |-> "returned", db |-> inst, opens |-> opens]
    ELSE [at |-> "opening", db |-> opens + 1, opens |-> opens + 1]

(* getDB() from its await on: dbInstance = await openDB(...); return dbInstance *)
getDBResumed(conn) == [inst |-> conn, at |-> "returned", db |-> conn]

closeDB(inst) == Absent

GetDB ==
    \E c \in Callers :
        /\ calls[c].at = "idle"
        /\ LET r == getDB(dbInstance, opened)
           IN SetStorage(dbInstance, [calls EXCEPT ![c] = [at |-> r.at, db |-> r.db]],
                         r.opens, closed, "getDB")

OpenDBResolved ==
    \E c \in Callers :
        /\ calls[c].at = "opening"
        /\ LET r == getDBResumed(calls[c].db)
           IN SetStorage(r.inst, [calls EXCEPT ![c] = [at |-> r.at, db |-> r.db]],
                         opened, closed, "openDB")

(* const db = await getDB(), of importLibraryFromJSON and the others *)
AwaitGetDB ==
    \E c \in Callers :
        /\ calls[c].at = "returned"
        /\ SetStorage(dbInstance, [calls EXCEPT ![c].at = "resumed"], opened, closed,
                      "awaitGetDB")

CloseDB ==
    SetStorage(closeDB(dbInstance), calls, opened, closed + 1, "closeDB")

-----------------------------------------------------------------------------
(* Specifications *)

Within(bound) == steps < bound

(* editing: every operation of the command surface, from the constructed   *)
(* engine, the wired circuit and the packed chip                           *)
Init == \E e \in {constructor, Wired, Packed} : StartFrom(e)

Next ==
    \/ Within(MaxSteps) /\ AddNode
    \/ Within(MaxSteps) /\ ClickNode
    \/ Within(MaxSteps) /\ ClickWire
    \/ Within(MaxSteps) /\ SelectArea
    \/ Within(MaxSteps) /\ Connect
    \/ Within(MaxSteps) /\ DeleteSelected
    \/ Within(MaxSteps) /\ DuplicateSelected
    \/ Within(MaxSteps) /\ Copy
    \/ Within(MaxSteps) /\ Cut
    \/ Within(MaxSteps) /\ Paste
    \/ Within(MaxSteps) /\ CreateGroupFromSelection
    \/ Within(MaxSteps) /\ UngroupSelected
    \/ Within(MaxSteps) /\ PackGroupToIC
    \/ Within(MaxSteps) /\ UnpackICToGroup
    \/ Within(MaxSteps) /\ UpdateNodeData
    \/ Within(MaxSteps) /\ UpdateIOMapping
    \/ Within(MaxSteps) /\ Undo
    \/ Within(MaxSteps) /\ Redo

Spec == Init /\ [][Next]_vars

(* simulation: the wired circuit, a doubly driven pin, each gate fed by the *)
(* switches and a clock driving the AND gate, stepped by forced ticks and   *)
(* switch toggles                                                           *)
InitSim ==
    \E e \in {Wired, DoubleDriven}
                \cup {GateCircuit(type) : type \in GateTypes \cup {"CLOCK"}} :
        StartFrom(e)

NextSim ==
    \/ Within(MaxSimSteps) /\ ToggleSwitch
    \/ Within(MaxSimSteps) /\ Tick
    \/ Within(MaxSimSteps) /\ ToggleSimulation

SpecSim == InitSim /\ [][NextSim]_vars

(* the clock: forced ticks from the constructed engine *)
InitClock == StartFrom(constructor)

NextClock ==
    \/ Within(MaxClockSteps) /\ Len(nodes) < MaxClockNodes /\ AddNode
    \/ Within(MaxClockSteps) /\ ToggleSwitch
    \/ Within(MaxClockSteps) /\ Tick

SpecClock == InitClock /\ [][NextClock]_vars

(* pin mapping: a library chip and a packed chip, remapped from the panel *)
InitMap == \E e \in {Chip, PackedAll} : StartFrom(e)

NextMap ==
    \/ Within(MaxMapSteps) /\ UpdateIOMapping
    \/ Within(MaxMapSteps) /\ Undo
    \/ Within(MaxMapSteps) /\ Redo

SpecMap == InitMap /\ [][NextMap]_vars

(* the run gate: the wired circuit, running or idle, stepped by animation   *)
(* frames, forced ticks and switch toggles                                  *)
InitRun == \E e \in {constructor, Wired} : StartFrom(e)

NextRun ==
    \/ Within(MaxRunSteps) /\ ToggleSimulation
    \/ Within(MaxRunSteps) /\ Frame
    \/ Within(MaxRunSteps) /\ Tick
    \/ Within(MaxRunSteps) /\ ToggleSwitch

SpecRun == InitRun /\ [][NextRun]_vars

(* history: sessions whose history stack is one short of the cap, at the    *)
(* cap and past its first eviction, continued by edits, undo and redo       *)
InitHist ==
    \E n \in {maxHistory - 5, maxHistory - 4, maxHistory - 3} : StartFrom(Aged(n))

NextHist ==
    \/ Within(MaxHistSteps) /\ AddNode
    \/ Within(MaxHistSteps) /\ UpdateNodeData
    \/ Within(MaxHistSteps) /\ DeleteSelected
    \/ Within(MaxHistSteps) /\ Undo
    \/ Within(MaxHistSteps) /\ Redo

SpecHist == InitHist /\ [][NextHist]_vars

(* the latch: the cross-coupled NAND gates packed into a chip and driven by *)
(* two switches                                                             *)
InitLatch == StartFrom(Bench(LatchCircuit))

NextLatch ==
    \/ Within(MaxLatchSteps) /\ ToggleSwitch
    \/ Within(MaxLatchSteps) /\ Tick
    \/ Within(MaxLatchSteps) /\ ToggleSimulation

SpecLatch == InitLatch /\ [][NextLatch]_vars

(* the library: chips saved, imported, deleted and placed again, and      *)
(* their pins remapped from the panel                                      *)
InitLib == \E e \in {Chip, PackedAll, PackedNot} : StartFrom(e)

NextLib ==
    \/ Within(MaxLibSteps) /\ SaveToLibrary
    \/ Within(MaxLibSteps) /\ ImportLibraryFromJSON
    \/ Within(MaxLibSteps) /\ DeleteFromLibrary
    \/ Within(MaxLibSteps) /\ PlaceFromLibrary
    \/ Within(MaxLibSteps) /\ UpdateIOMapping
    \/ Within(MaxLibSteps) /\ ClickNode

SpecLib == InitLib /\ [][NextLib]_vars

(* packing: a group cut out of a circuit, two groups selected at once and *)
(* a chip inside the circuit that is packed                                *)
InitPack == \E e \in {Crossed, LitChip, TwoGroups, NestedBench} : StartFrom(e)

NextPack ==
    \/ Within(MaxPackSteps) /\ SelectArea
    \/ Within(MaxPackSteps) /\ CreateGroupFromSelection
    \/ Within(MaxPackSteps) /\ PackGroupToIC
    \/ Within(MaxPackSteps) /\ UnpackICToGroup
    \/ Within(MaxPackSteps) /\ UpdateIOMapping
    \/ Within(MaxPackSteps) /\ ToggleSwitch
    \/ Within(MaxPackSteps) /\ Tick

SpecPack == InitPack /\ [][NextPack]_vars

(* groups: a circuit with a group in it, edited through the clipboard, the *)
(* group commands and the history                                          *)
InitGroup == StartFrom(Grouped)

NextGroup ==
    \/ Within(MaxGroupSteps) /\ ClickNode
    \/ Within(MaxGroupSteps) /\ SelectArea
    \/ Within(MaxGroupSteps) /\ DeleteSelected
    \/ Within(MaxGroupSteps) /\ DuplicateSelected
    \/ Within(MaxGroupSteps) /\ Copy
    \/ Within(MaxGroupSteps) /\ Cut
    \/ Within(MaxGroupSteps) /\ Paste
    \/ Within(MaxGroupSteps) /\ CreateGroupFromSelection
    \/ Within(MaxGroupSteps) /\ UngroupSelected
    \/ Within(MaxGroupSteps) /\ PackGroupToIC
    \/ Within(MaxGroupSteps) /\ UnpackICToGroup
    \/ Within(MaxGroupSteps) /\ Undo
    \/ Within(MaxGroupSteps) /\ Redo

SpecGroup == InitGroup /\ [][NextGroup]_vars

(* chips on the bench: each two-level circuit, the wired circuit and the    *)
(* doubly driven one, packed and driven by two switches, and a chip of      *)
(* broken code beside the wired circuit                                     *)
InitChip ==
    \E e \in {Bench(Wired), Bench(DoubleDriven), BrokenBench}
                \cup {Bench(TwoLevel(type)) : type \in GateTypes} :
        StartFrom(e)

NextChip ==
    \/ Within(MaxChipSteps) /\ ToggleSwitch
    \/ Within(MaxChipSteps) /\ Tick

SpecChip == InitChip /\ [][NextChip]_vars

(* the function cache: a chip on the bench stepped, given other code,      *)
(* deleted, unpacked and packed again, with undo and redo                  *)
InitCache == StartFrom(NestedBench)

NextCache ==
    \/ Within(MaxCacheSteps) /\ Tick
    \/ Within(MaxCacheSteps) /\ ToggleSwitch
    \/ Within(MaxCacheSteps) /\ UpdateCode
    \/ Within(MaxCacheSteps) /\ ClickNode
    \/ Within(MaxCacheSteps) /\ DeleteSelected
    \/ Within(MaxCacheSteps) /\ UnpackICToGroup
    \/ Within(MaxCacheSteps) /\ PackGroupToIC
    \/ Within(MaxCacheSteps) /\ Undo
    \/ Within(MaxCacheSteps) /\ Redo

SpecCache == InitCache /\ [][NextCache]_vars

(* the step: the lit circuit and the clocked one, their wires selected and *)
(* deleted between forced ticks, animation frames and switch toggles      *)
InitTick == \E e \in {Lit, GateCircuit("CLOCK")} : StartFrom(e)

NextTick ==
    \/ Within(MaxTickSteps) /\ ClickWire
    \/ Within(MaxTickSteps) /\ DeleteSelected
    \/ Within(MaxTickSteps) /\ ToggleSwitch
    \/ Within(MaxTickSteps) /\ ToggleSimulation
    \/ Within(MaxTickSteps) /\ Tick
    \/ Within(MaxTickSteps) /\ Frame

SpecTick == InitTick /\ [][NextTick]_vars

(* the order of the node map: every two-level circuit and a chip between  *)
(* switches and a light, stepped by forced ticks and switch toggles        *)
InitOrder == \E e \in {NestedBench} \cup {TwoLevel(type) : type \in GateTypes} : StartFrom(e)

NextOrder ==
    \/ Within(MaxOrderSteps) /\ ToggleSwitch
    \/ Within(MaxOrderSteps) /\ Tick

SpecOrder == InitOrder /\ [][NextOrder]_vars

(* undo and redo: the constructed engine taken back to its first          *)
(* checkpoint and forward again, with nodes added in between              *)
InitUndo == StartFrom(constructor)

NextUndo ==
    \/ Within(MaxUndoSteps) /\ AddNode
    \/ Within(MaxUndoSteps) /\ Undo
    \/ Within(MaxUndoSteps) /\ Redo

SpecUndo == InitUndo /\ [][NextUndo]_vars

(* the clock: the wired circuit, running or idle, driven by animation     *)
(* frames on the page's clock, with switch toggles and wire edits between  *)
(* the frames                                                              *)
InitTime == \E e \in {Wired, toggleSimulation(Wired)} : StartFrom(e)

NextTime ==
    \/ Within(MaxTimeSteps) /\ AnimationFrame
    \/ Within(MaxTimeSteps) /\ ToggleSimulation
    \/ Within(MaxTimeSteps) /\ ToggleSwitch
    \/ Within(MaxTimeSteps) /\ Connect

SpecTime == InitTime /\ [][NextTime]_vars

(* the pointer: every sequence of pointer events on the constructed       *)
(* circuit                                                                 *)
InitPointer == StartFrom(constructor)

NextPointer ==
    \/ Within(MaxPointerSteps) /\ PointerDown
    \/ Within(MaxPointerSteps) /\ PointerMove
    \/ Within(MaxPointerSteps) /\ PointerUp

SpecPointer == InitPointer /\ [][NextPointer]_vars

(* the database: every interleaving of three getDB() calls and closeDB() *)
InitDB == StartFrom(constructor)

NextDB ==
    \/ Within(MaxDbSteps) /\ GetDB
    \/ Within(MaxDbSteps) /\ OpenDBResolved
    \/ Within(MaxDbSteps) /\ AwaitGetDB
    \/ Within(MaxDbSteps) /\ CloseDB

SpecDB == InitDB /\ [][NextDB]_vars

-----------------------------------------------------------------------------
(* Properties of the editing operations *)

(* what deep equality of nodes, wires and viewport compares: the snapshot,  *)
(* where an undefined field and a missing one are the same                  *)
Snapshot(e) == stringify(serialize(e))

MutatingOps ==
    {"addNode", "deleteSelected", "duplicateSelected", "createGroupFromSelection",
     "ungroupSelected", "packGroupToIC", "unpackICToGroup", "updateNodeData",
     "updateIOMapping", "paste"}

(* C1: after a state-mutating operation, an immediate undo() leaves nodes,  *)
(* wires and viewport deep-equal to what they were just before the          *)
(* operation.                                                               *)
C1_UndoRestoresPreState ==
    lastOp \in MutatingOps => Snapshot(undo(Eng)) = Snapshot(pre)

(* C2: after a state-mutating operation, undo() and then redo() leave       *)
(* nodes, wires and viewport deep-equal to the state right after the        *)
(* operation.                                                               *)
C2_RedoRestoresPostState ==
    lastOp \in MutatingOps => Snapshot(redo(undo(Eng))) = Snapshot(Eng)

(* C3: every wire has its source node and its target node in the node map,  *)
(* and its pin indices inside those nodes' output and input pin counts.     *)
C3_WiresValid ==
    \A k \in 1..Len(wires) :
        /\ HasNode(nodes, wires[k].sourceNodeId)
        /\ HasNode(nodes, wires[k].targetNodeId)
        /\ wires[k].sourcePinIndex <
               getOutputCount(TypeOf(nodes, wires[k].sourceNodeId),
                              Some(GetNode(nodes, wires[k].sourceNodeId)))
        /\ wires[k].targetPinIndex <
               getInputCount(TypeOf(nodes, wires[k].targetNodeId),
                             Some(GetNode(nodes, wires[k].targetNodeId)))

(* C4: after deleteSelected() no wire has a deleted node as its source or   *)
(* target, every selected wire is gone, both selections are empty, and a    *)
(* following tick(-1) completes normally.                                   *)
C4_DeleteSelectedPrunes ==
    lastOp = "deleteSelected" =>
        /\ \A k \in 1..Len(wires) :
               /\ wires[k].sourceNodeId \notin Range(pre.selectedNodeIds)
               /\ wires[k].targetNodeId \notin Range(pre.selectedNodeIds)
               /\ wires[k].id \notin pre.selectedWireIds
        /\ \A id \in Range(pre.selectedNodeIds) : ~HasNode(nodes, id)
        /\ selectedNodeIds = <<>>
        /\ selectedWireIds = {}
        /\ ~tick(Eng, 0 - 1).threw

(* a deleteSelected() that removed a node with a wire on it and a selected  *)
(* wire of other nodes                                                      *)
C4_Witness ==
    /\ lastOp = "deleteSelected"
    /\ \E k \in 1..Len(pre.wires) :
           /\ pre.wires[k].sourceNodeId \in Range(pre.selectedNodeIds)
           /\ pre.wires[k].id \notin pre.selectedWireIds
    /\ \E k \in 1..Len(pre.wires) :
           /\ pre.wires[k].id \in pre.selectedWireIds
           /\ pre.wires[k].sourceNodeId \notin Range(pre.selectedNodeIds)
           /\ pre.wires[k].targetNodeId \notin Range(pre.selectedNodeIds)
    /\ Len(wires) > 0

(* C5: for every node, inputs.length equals getInputCount(type, node) and   *)
(* outputs.length equals getOutputCount(type, node).                        *)
C5_PinArraysMatchCounts ==
    \A k \in 1..Len(nodes) :
        /\ Len(nodes[k].inputs) = getInputCount(nodes[k].type, Some(nodes[k]))
        /\ Len(nodes[k].outputs) = getOutputCount(nodes[k].type, Some(nodes[k]))

-----------------------------------------------------------------------------
(* Properties of the simulation step *)

(* node B's input pin j after the step, node A's output pin i before it *)
InputNow(w) == at(GetNode(nodes, w.targetNodeId).inputs, w.targetPinIndex)

OutputBefore(w) == at(GetNode(pre.nodes, w.sourceNodeId).outputs, w.sourcePinIndex)

(* the k-th wire is the last of the list on its target pin *)
LastOnPin(k) ==
    \A j \in (k + 1)..Len(wires) :
        \/ wires[j].targetNodeId # wires[k].targetNodeId
        \/ wires[j].targetPinIndex # wires[k].targetPinIndex

(* C6 as stated: after one tick, for every wire from A.i to B.j, B.inputs[j] *)
(* equals the value A.outputs[i] had when the tick started, whatever other   *)
(* wires exist and whatever the type of A.                                   *)
C6_Original ==
    lastOp = "tick" =>
        \A k \in 1..Len(wires) : InputNow(wires[k]) = OutputBefore(wires[k])

(* C6: after one tick, for every wire from A.i to B.j that is the last wire  *)
(* of the list on B.j, B.inputs[j] equals the value A.outputs[i] had when    *)
(* the tick started or, when A is a CLOCK, the output this tick gave it.     *)
C6_Propagation ==
    lastOp = "tick" =>
        \A k \in 1..Len(wires) :
            LastOnPin(k) =>
                InputNow(wires[k]) =
                    IF TypeOf(nodes, wires[k].sourceNodeId) = "CLOCK"
                    THEN clockOutput(tickCount)
                    ELSE OutputBefore(wires[k])

(* a tick over a pin driven by two wires whose sources differed: the pin     *)
(* took the value of the later wire                                          *)
C6_Witness ==
    /\ lastOp = "tick"
    /\ \E j, k \in 1..Len(wires) :
           /\ j < k
           /\ LastOnPin(k)
           /\ wires[j].targetNodeId = wires[k].targetNodeId
           /\ wires[j].targetPinIndex = wires[k].targetPinIndex
           /\ OutputBefore(wires[j]) # OutputBefore(wires[k])
           /\ InputNow(wires[k]) = OutputBefore(wires[k])

(* the wired circuit of the constructor's nodes with both switches on *)
BothOn(e) ==
    /\ Len(e.wires) = Len(Wired.wires)
    /\ \A k \in 1..Len(e.wires) : [e.wires[k] EXCEPT !.state = FALSE] = Wired.wires[k]
    /\ NodeIds(e.nodes) = NodeIds(Wired.nodes)
    /\ at(GetNode(e.nodes, 1).outputs, 0)
    /\ at(GetNode(e.nodes, 2).outputs, 0)
    /\ ~e.isRunning

(* no signal of the circuit has moved yet *)
AtRest(e) ==
    /\ GetNode(e.nodes, 3).inputs = <<FALSE, FALSE>>
    /\ GetNode(e.nodes, 3).outputs = <<FALSE>>
    /\ GetNode(e.nodes, 4).inputs = <<FALSE>>

(* C7 as stated: in the wired circuit, idle, with both switches toggled on,  *)
(* exactly one forced tick leaves LIGHT.inputs[0] equal to true.             *)
C7_Original ==
    (lastOp = "tick" /\ BothOn(pre) /\ AtRest(pre)) => at(GetNode(nodes, 4).inputs, 0)

(* C7: in the wired circuit, idle, with both switches toggled on, the first  *)
(* forced tick leaves AND.outputs[0] true and LIGHT.inputs[0] false, and the *)
(* forced tick after it leaves LIGHT.inputs[0] equal to true.                *)
C7_SecondTickLights ==
    (lastOp = "tick" /\ BothOn(pre)) =>
        /\ at(GetNode(nodes, 3).outputs, 0)
        /\ AtRest(pre) => ~at(GetNode(nodes, 4).inputs, 0)
        /\ at(GetNode(pre.nodes, 3).outputs, 0) => at(GetNode(nodes, 4).inputs, 0)

(* the second forced tick after both switches went on *)
C7_Witness ==
    /\ lastOp = "tick"
    /\ BothOn(pre)
    /\ at(GetNode(pre.nodes, 3).outputs, 0)
    /\ ~at(GetNode(pre.nodes, 4).inputs, 0)
    /\ at(GetNode(nodes, 4).inputs, 0)

(* C8: the evaluation of a tick sets outputs[0] of each gate from the values *)
(* on its input pins after propagation: AND = in0 and in1, OR = in0 or in1,  *)
(* NOT = not in0, NAND = not (in0 and in1), XOR = in0 differs from in1,      *)
(* BUFFER = in0; it leaves the outputs of SWITCH, LIGHT, CLOCK and GROUP     *)
(* nodes as the earlier phases of the tick left them.                        *)
C8_GateEvaluation ==
    lastOp = "tick" =>
        \A k \in 1..Len(nodes) :
            LET n == nodes[k]
                in0 == at(n.inputs, 0)
                in1 == at(n.inputs, 1)
            IN /\ n.type = "AND" => n.outputs = <<in0 /\ in1>>
               /\ n.type = "OR" => n.outputs = <<in0 \/ in1>>
               /\ n.type = "NOT" => n.outputs = <<~in0>>
               /\ n.type = "NAND" => n.outputs = <<~(in0 /\ in1)>>
               /\ n.type = "XOR" => n.outputs = <<in0 # in1>>
               /\ n.type = "BUFFER" => n.outputs = <<in0>>
               /\ n.type \in {"SWITCH", "LIGHT", "GROUP"} => n.outputs = pre.nodes[k].outputs
               /\ n.type = "CLOCK" => n.outputs = <<clockOutput(tickCount)>>

(* a tick that found both inputs of a NAND gate high and took its output low *)
C8_Witness ==
    /\ lastOp = "tick"
    /\ \E k \in 1..Len(nodes) :
           /\ nodes[k].type = "NAND"
           /\ nodes[k].inputs = <<TRUE, TRUE>>
           /\ nodes[k].outputs = <<FALSE>>
           /\ pre.nodes[k].outputs = <<TRUE>>

-----------------------------------------------------------------------------
(* Properties of the clock *)

(* C9: from a fresh engine, over the forced ticks numbered 0 to 9 a CLOCK    *)
(* node's output is high after each of ticks 0 to 4 and low after each of    *)
(* ticks 5 to 9.  Every tick of SpecClock is forced and counted, so the tick *)
(* numbered t is the one that leaves tickCount = t + 1.                      *)
C9_ClockPhase ==
    (lastOp = "tick" /\ tickCount <= 10) =>
        \A k \in 1..Len(nodes) :
            nodes[k].type = "CLOCK" => (at(nodes[k].outputs, 0) <=> tickCount - 1 <= 4)

-----------------------------------------------------------------------------
(* Properties of the pin mapping *)

IsPermutation(m, n) == Len(m) = n /\ \A port \in 0..(n - 1) : \E pin \in 1..n : m[pin] = port

(* the mapping a node holds, the identity while it has none *)
MappingOf(node, type) ==
    IF type = "input"
    THEN (IF IsSome(node.inputMapping) THEN The(node.inputMapping)
          ELSE Identity(count(node.inputCount)))
    ELSE (IF IsSome(node.outputMapping) THEN The(node.outputMapping)
          ELSE Identity(count(node.outputCount)))

(* m is old with the ports of at most two pins exchanged *)
IsSwapOf(m, old) ==
    /\ Len(m) = Len(old)
    /\ LET moved == {p \in 1..Len(m) : m[p] # old[p]}
       IN \/ moved = {}
          \/ \E p, q \in moved :
                 /\ p # q
                 /\ moved = {p, q}
                 /\ m[p] = old[q]
                 /\ m[q] = old[p]

(* C10: with pins and ports of the chip as arguments, after any sequence of  *)
(* updateIOMapping calls the input mapping and the output mapping of an IC   *)
(* are each a permutation of 0..count-1, and a call that gives pin p a port  *)
(* held by pin q gives q the port p held and leaves the other entries as     *)
(* they were.                                                                *)
C10_MappingIsPermutation ==
    \A k \in 1..Len(nodes) :
        nodes[k].type = "IC" =>
            /\ IsPermutation(MappingOf(nodes[k], "input"), count(nodes[k].inputCount))
            /\ IsPermutation(MappingOf(nodes[k], "output"), count(nodes[k].outputCount))
            /\ lastOp = "updateIOMapping" =>
                   /\ IsSwapOf(MappingOf(nodes[k], "input"),
                               MappingOf(GetNode(pre.nodes, nodes[k].id), "input"))
                   /\ IsSwapOf(MappingOf(nodes[k], "output"),
                               MappingOf(GetNode(pre.nodes, nodes[k].id), "output"))

(* a chip whose three input pins were rotated by two calls, the second of    *)
(* which exchanged the ports of two pins                                     *)
C10_Witness ==
    /\ lastOp = "updateIOMapping"
    /\ \E k \in 1..Len(nodes) :
           /\ nodes[k].type = "IC"
           /\ nodes[k].inputMapping = <<<<1, 2, 0>>>>
           /\ GetNode(pre.nodes, nodes[k].id).inputMapping # nodes[k].inputMapping
           /\ GetNode(pre.nodes, nodes[k].id).inputMapping # <<>>

-----------------------------------------------------------------------------
(* Properties of pack and unpack *)

(* the members of the first selected GROUP of e, in Map order *)
GroupMembers(e) == membersOf(e.nodes, firstSelected(e, "GROUP"))

(* the wires of e with both ends among the nodes ns, in list order *)
WiresAmong(e, ns) ==
    SelectSeq(e.wires, LAMBDA w : w.sourceNodeId \in NodeIds(ns) /\ w.targetNodeId \in NodeIds(ns))

(* a wire as its two pins, with the node ids renamed from the nodes from to *)
(* the nodes to, member by member                                          *)
Renamed(w, from, to) ==
    <<to[idIndex(from, w.sourceNodeId) + 1].id, w.sourcePinIndex,
      to[idIndex(from, w.targetNodeId) + 1].id, w.targetPinIndex>>

Pins(w) == <<w.sourceNodeId, w.sourcePinIndex, w.targetNodeId, w.targetPinIndex>>

(* the group of e2 has the members of the group of e1, type by type and     *)
(* position by position, under new ids, and their wires under the renaming  *)
SameGroup(e1, e2) ==
    LET old == GroupMembers(e1)
        new == GroupMembers(e2)
    IN /\ Len(new) = Len(old)
       /\ Cardinality(NodeIds(new)) = Len(new)
       /\ \A i \in 1..Len(old) :
              /\ new[i].type = old[i].type
              /\ new[i].position = old[i].position
       /\ Len(WiresAmong(e2, new)) = Len(WiresAmong(e1, old))
       /\ \A k \in 1..Len(WiresAmong(e1, old)) :
              Pins(WiresAmong(e2, new)[k]) = Renamed(WiresAmong(e1, old)[k], old, new)

(* C11: packGroupToIC followed immediately by unpackICToGroup yields a new  *)
(* group whose members have the types and positions of the original         *)
(* members and whose internal wires are the original internal wires under a *)
(* bijective renaming of the node ids, pin indices kept.                    *)
C11_PackUnpackRoundTrip ==
    lastOp = "packGroupToIC" =>
        /\ unpackICToGroup(Eng) # Eng
        /\ SameGroup(pre, unpackICToGroup(Eng))

(* a pack of the four wired nodes of the constructor, whose unpacking gives *)
(* a group of four nodes under new ids with the three wires between them    *)
C11_Witness ==
    /\ lastOp = "packGroupToIC"
    /\ Len(GroupMembers(pre)) = 4
    /\ Len(WiresAmong(pre, GroupMembers(pre))) = 3
    /\ Len(GroupMembers(unpackICToGroup(Eng))) = 4
    /\ NodeIds(GroupMembers(unpackICToGroup(Eng))) \cap NodeIds(GroupMembers(pre)) = {}
    /\ Len(WiresAmong(unpackICToGroup(Eng), GroupMembers(unpackICToGroup(Eng)))) = 3

(* the selection holds no GROUP node *)
NoGroupSelected == firstSelected(Eng, "GROUP") = Absent

(* the first selected GROUP has neither a SWITCH nor a LIGHT among its members *)
BareGroupSelected ==
    /\ ~NoGroupSelected
    /\ \A n \in Range(GroupMembers(Eng)) : n.type \notin {"SWITCH", "LIGHT"}

(* C13: packGroupToIC leaves nodes, wires, selection, history stack, redo   *)
(* stack and function cache as they are when the selection holds no GROUP   *)
(* node and when the selected group has no SWITCH and no LIGHT member.      *)
C13_PackRefusalIsNoOp ==
    (NoGroupSelected \/ BareGroupSelected) => packGroupToIC(Eng) = Eng

(* a selected group around a gate alone, which packGroupToIC leaves alone *)
C13_Witness ==
    /\ BareGroupSelected
    /\ Len(GroupMembers(Eng)) > 0
    /\ lastOp = "createGroupFromSelection"
    /\ packGroupToIC(Eng) = Eng

(* the selected nodes of e that are ICs *)
SelectedICs(e) == {id \in Range(e.selectedNodeIds) : TypeOf(e.nodes, id) = "IC"}

(* C14: unpackICToGroup changes the engine only when the selection holds    *)
(* exactly one IC node and that IC carries a stored internal snapshot.      *)
C14_UnpackNeedsOneIC ==
    lastOp = "unpackICToGroup" =>
        /\ Cardinality(SelectedICs(pre)) = 1
        /\ \A id \in SelectedICs(pre) : IsSome(GetNode(pre.nodes, id).internals)

(* the engine after n forced ticks *)
RECURSIVE Ticks(_, _)
Ticks(e, n) == IF n = 0 THEN e ELSE Ticks(tick(e, 0 - 1), n - 1)

(* the nodes ns with the k-th SWITCH by ascending y holding inputs[k] *)
Driven(ns, inputs) ==
    LET switches == sortByY(SelectSeq(ns, LAMBDA n : n.type = "SWITCH"))
    IN [i \in 1..Len(ns) |->
           IF ns[i].type = "SWITCH"
           THEN [ns[i] EXCEPT !.outputs = <<at(inputs, idIndex(switches, ns[i].id))>>]
           ELSE ns[i]]

(* the inputs of the LIGHTs by ascending y once the circuit stored in the   *)
(* chip has settled with its switches holding the inputs                    *)
Settle(ic, inputs) ==
    LET lights(e) == sortByY(SelectSeq(e.nodes, LAMBDA n : n.type = "LIGHT"))
        read(e) == [k \in 1..Len(lights(e)) |-> at(lights(e)[k].inputs, 0)]
    IN read(Ticks([NewEngine EXCEPT !.nodes = Driven(The(ic.internals).nodes, inputs),
                                    !.wires = The(ic.internals).wires],
                  SettleTicks))

(* C12: for a chip packed from switches, lights and gates wired without     *)
(* cycles, after a tick output pin k shows the value the input of the k-th  *)
(* LIGHT (by ascending y) settles to in the unpacked circuit when its       *)
(* switches (by ascending y) hold the values on the chip's input pins.      *)
C12_PackedMatchesUnpacked ==
    lastOp = "tick" =>
        \A i \in 1..Len(nodes) :
            (nodes[i].type = "IC" /\ IsSome(nodes[i].internals)) =>
                nodes[i].outputs = Settle(nodes[i], nodes[i].inputs)

-----------------------------------------------------------------------------
(* Properties of the chip evaluation *)

(* an IC whose code new Function rejects *)
Uncompilable(n) ==
    n.type = "IC" /\ IsSome(n.compiledFunction) /\ ~The(n.compiledFunction).ok

(* C15: when the code of an IC cannot be turned into a function, the tick   *)
(* completes, leaves that IC's outputs and internal state as they were and  *)
(* caches nothing for it, and evaluates every gate as usual.                *)
C15_BrokenChipIsSkipped ==
    lastOp = "tick" =>
        /\ tickCount = pre.tickCount + 1
        /\ \A i \in 1..Len(nodes) :
               /\ Uncompilable(nodes[i]) =>
                      /\ nodes[i].outputs = pre.nodes[i].outputs
                      /\ nodes[i].internalState = pre.nodes[i].internalState
                      /\ cacheGet(fnCache, nodes[i].id) = <<>>
               /\ nodes[i].type \in GateTypes =>
                      nodes[i].outputs = <<computeGate(nodes[i].type, nodes[i].inputs)>>

(* a tick that found the broken chip's input high, left its output low and  *)
(* took the AND gate's output high                                          *)
C15_Witness ==
    /\ lastOp = "tick"
    /\ \E i \in 1..Len(nodes) :
           /\ Uncompilable(nodes[i])
           /\ nodes[i].inputs = <<TRUE>>
           /\ nodes[i].outputs = <<FALSE>>
    /\ \E i \in 1..Len(nodes) :
           /\ nodes[i].type = "AND"
           /\ nodes[i].outputs = <<TRUE>>
           /\ pre.nodes[i].outputs = <<FALSE>>

-----------------------------------------------------------------------------
(* Properties of the run gate *)

(* C16: tick(t) with t other than -1 performs a step (tickCount + 1) if and *)
(* only if isRunning holds and t - lastTick >= tickRate, and otherwise      *)
(* changes nothing; tick(-1) always performs exactly one step.              *)
C16_RunGate ==
    /\ lastOp = "frame" =>
           /\ pre.isRunning
           /\ lastTick - pre.lastTick >= tickRate
           /\ tickCount = pre.tickCount + 1
    /\ \A gap \in FrameGaps :
           IF isRunning /\ gap >= tickRate
           THEN tick(Eng, lastTick + gap).tickCount = tickCount + 1
           ELSE tick(Eng, lastTick + gap) = Eng
    /\ lastOp = "tick" => tickCount = pre.tickCount + 1
    /\ tick(Eng, 0 - 1).tickCount = tickCount + 1

(* a frame that stepped the running simulation, after which a frame 99 ms   *)
(* later does nothing                                                       *)
C16_Witness ==
    /\ lastOp = "frame"
    /\ isRunning
    /\ tickCount = pre.tickCount + 1
    /\ tick(Eng, lastTick + 99) = Eng
    /\ tick(Eng, lastTick + 100) # Eng

(* the switches of ns that differ in outputs[0] from those of old *)
Flipped(ns, old) ==
    {i \in 1..Len(ns) : ns[i].type = "SWITCH" /\ at(ns[i].outputs, 0) # at(old[i].outputs, 0)}

(* C17: toggleSwitch(id) on a SWITCH flips its outputs[0]; when running it  *)
(* then runs exactly one forced tick, when idle it runs none; with the id   *)
(* of a node that is not a SWITCH or with an unknown id it changes nothing. *)
C17_ToggleSwitch ==
    /\ lastOp = "toggleSwitch" =>
           /\ Cardinality(Flipped(nodes, pre.nodes)) = 1
           /\ tickCount = pre.tickCount + (IF pre.isRunning THEN 1 ELSE 0)
           /\ ~pre.isRunning =>
                  /\ wires = pre.wires
                  /\ \A i \in 1..Len(nodes) :
                         i \notin Flipped(nodes, pre.nodes) => nodes[i] = pre.nodes[i]
    /\ \A id \in NodeIds(nodes) \cup {nextId} :
           TypeOf(nodes, id) # "SWITCH" => toggleSwitch(Eng, id) = Eng

(* a toggle of a switch of the running simulation, which stepped it *)
C17_Witness ==
    /\ lastOp = "toggleSwitch"
    /\ pre.isRunning
    /\ tickCount = pre.tickCount + 1
    /\ Cardinality(Flipped(nodes, pre.nodes)) = 1
    /\ \E i \in 1..Len(nodes) : nodes[i].type = "AND" /\ nodes[i].inputs # pre.nodes[i].inputs

(* the steps that are pointer gestures on the canvas *)
Gestures == {"click", "clickWire", "selectArea", "connect"}

(* C18: while the simulation is paused no pointer gesture advances          *)
(* tickCount, changes the inputs of a node or changes the outputs of a node *)
(* that is not a SWITCH.                                                    *)
C18_PausedGesturesDoNotStep ==
    (lastOp \in Gestures /\ ~pre.isRunning) =>
        /\ tickCount = pre.tickCount
        /\ \A i \in 1..Len(nodes) :
               HasNode(pre.nodes, nodes[i].id) =>
                   /\ nodes[i].inputs = GetNode(pre.nodes, nodes[i].id).inputs
                   /\ nodes[i].type # "SWITCH" =>
                          nodes[i].outputs = GetNode(pre.nodes, nodes[i].id).outputs

-----------------------------------------------------------------------------
(* Properties of the history *)

(* the steps that call saveState before they change the graph *)
SavingOps == {"addNode", "updateNodeData", "deleteSelected"}

(* C19: the history stack never holds more than maxHistory snapshots: a     *)
(* push at the cap evicts the oldest entry, and redo never takes the stack  *)
(* past the cap.                                                            *)
C19_HistoryBounded ==
    /\ Len(historyStack) <= maxHistory
    /\ (/\ lastOp \in SavingOps
        /\ Len(pre.historyStack) = maxHistory
        /\ historyStack # pre.historyStack) =>
           historyStack = Append(Tail(pre.historyStack), Snapshot(pre))
    /\ lastOp = "redo" => historyStack = Append(pre.historyStack, Snapshot(Eng))

(* a push on a full stack that evicted the oldest snapshot, and a redo open *)
(* to refill the stack to the cap                                           *)
C19_Witness ==
    /\ lastOp \in SavingOps
    /\ Len(pre.historyStack) = maxHistory
    /\ Len(historyStack) = maxHistory
    /\ historyStack[1] = pre.historyStack[2]
    /\ historyStack[maxHistory] = Snapshot(pre)
    /\ Len(redo(undo(Eng)).historyStack) = maxHistory

-----------------------------------------------------------------------------
(* Properties of the packed latch.  The chip's input pin 0 is the set       *)
(* input and pin 1 the reset input, both active low; output pin 0 is Q.     *)

(* the chip of the bench *)
LatchChip(e) == GetNode(e.nodes, firstSelected([e EXCEPT !.selectedNodeIds = idsOf(e.nodes)], "IC"))

Q(e) == at(LatchChip(e).outputs, 0)

(* the state variables of the two NAND gates, the last two of the chip *)
Gates(e) ==
    LET st == The(LatchChip(e).internalState)
    IN <<st[Len(st) - 1].v, st[Len(st)].v>>

(* the chip holds a bit: the gates disagree and Q shows the first of them *)
Latched(e) ==
    /\ IsSome(LatchChip(e).internalState)
    /\ Gates(e) \in {<<1, 0>>, <<0, 1>>}
    /\ Q(e) = (Gates(e)[1] = 1)

(* C20: the packed NAND latch keeps its state: a tick with only the set     *)
(* input active leaves Q = 1, a tick with only the reset input active       *)
(* leaves Q = 0, and a tick with both inputs inactive leaves a latched Q as *)
(* it was; the internalState after a tick is the state the generated        *)
(* function returned for the state the tick passed in.                      *)
C20_LatchHolds ==
    lastOp \in {"tick", "toggleSwitch"} /\ tickCount # pre.tickCount =>
        /\ LatchChip(Eng).inputs = <<FALSE, TRUE>> => Q(Eng) /\ Latched(Eng)
        /\ LatchChip(Eng).inputs = <<TRUE, FALSE>> => ~Q(Eng) /\ Latched(Eng)
        /\ (LatchChip(Eng).inputs = <<TRUE, TRUE>> /\ Latched(pre)) =>
               Q(Eng) = Q(pre) /\ Latched(Eng)
        /\ LatchChip(Eng).internalState =
               Some(runCode(The(LatchChip(Eng).compiledFunction), LatchChip(Eng).inputs,
                            The(LatchChip(pre).internalState)).state)

(* a tick with both inputs inactive after a tick that set the latch: Q is   *)
(* still 1                                                                  *)
C20_Witness ==
    /\ lastOp = "tick"
    /\ LatchChip(Eng).inputs = <<TRUE, TRUE>>
    /\ LatchChip(pre).inputs = <<FALSE, TRUE>>
    /\ Latched(pre)
    /\ Q(pre)
    /\ Q(Eng)

-----------------------------------------------------------------------------
(* Properties of the library *)

(* C21: importLibraryFromJSON is all or nothing: an import that throws (on *)
(* text that is not JSON, on a value of the wrong shape or on a rejected   *)
(* write) leaves the store as it was, and an import that returns has       *)
(* written every entry of the document, each under a new id.               *)
C21_ImportAllOrNothing ==
    \A doc \in Documents :
        \A reject \in 0..Len(doc.entries) :
            LET r == importLibraryFromJSON(library, nextId, doc, reject)
            IN IF r.threw THEN r.store = library
               ELSE /\ Len(r.store) = Len(library) + Len(doc.entries)
                    /\ \A k \in 1..Len(doc.entries) :
                           r.store[Len(library) + k] =
                               [The(doc.entries[k]) EXCEPT !.id = nextId + k - 1]

(* the outputs of a chip after each input vector of seq, fed one vector per *)
(* evaluation                                                               *)
RECURSIVE Responses(_, _)
Responses(node, seq) ==
    IF seq = <<>> THEN <<>>
    ELSE LET step(after) == <<after.outputs>> \o Responses(after, Tail(seq))
         IN step(computeIC([node EXCEPT !.inputs = Head(seq)], {}).node)

(* the input sequences of up to two vectors for n input pins *)
InputSeqs(n) ==
    {<<a>> : a \in [1..n -> BOOLEAN]} \cup {<<a, b>> : a \in [1..n -> BOOLEAN],
                                                     b \in [1..n -> BOOLEAN]}

Fresh(node) == [node EXCEPT !.internalState = <<>>]

(* two chips with the same ports, size, label, code, snapshot (as the JSON  *)
(* text of it, in which a key set to undefined and a key not set are the    *)
(* same) and behaviour                                                      *)
SameChip(a, b) ==
    /\ getInputCount("IC", Some(a)) = getInputCount("IC", Some(b))
    /\ getOutputCount("IC", Some(a)) = getOutputCount("IC", Some(b))
    /\ getNodeDimensions(a) = getNodeDimensions(b)
    /\ a.label = b.label
    /\ a.compiledFunction = b.compiledFunction
    /\ deepClone(a).internals = deepClone(b).internals
    /\ \A seq \in InputSeqs(getInputCount("IC", Some(a))) :
           Responses(Fresh(a), seq) = Responses(Fresh(b), seq)

(* the node addNode places from the item saved last *)
PlacedAgain ==
    LET last(ns) == ns[Len(ns)]
    IN last(addNode(Eng, "IC", AddPos,
                    Some(libraryItemToNodeTemplate(library[Len(library)]))).nodes)

(* C22: an IC node saved with saveToLibrary and placed again through       *)
(* libraryItemToNodeTemplate and addNode has the port counts, dimensions,  *)
(* label, generated code and internal snapshot of the saved node and, from *)
(* a fresh internal state, answers every input sequence with the same      *)
(* values on the same output pins.                                         *)
C22_LibraryRoundTrip ==
    lastOp = "saveToLibrary" => SameChip(GetNode(nodes, selectedNodeIds[1]), PlacedAgain)

-----------------------------------------------------------------------------
(* Properties of packing *)

(* the group a pack converted and its members, in the engine before it *)
PackedGroup == firstSelected(pre, "GROUP")

PackedMembers == membersOf(pre.nodes, PackedGroup)

(* C23: a successful packGroupToIC replaces the group and its members by   *)
(* exactly one IC node under the group's id, with as many input pins as    *)
(* SWITCH members and output pins as LIGHT members, identity mappings and  *)
(* all pins false; it removes every wire touching a member, leaves every   *)
(* other node and wire as it was and selects exactly the IC.               *)
C23_PackReplacesGroup ==
    lastOp = "packGroupToIC" =>
        LET gone == NodeIds(PackedMembers)
            ic == GetNode(nodes, PackedGroup)
            ins == Len(SelectSeq(PackedMembers, LAMBDA n : n.type = "SWITCH"))
            outs == Len(SelectSeq(PackedMembers, LAMBDA n : n.type = "LIGHT"))
        IN /\ NodeIds(nodes) = (NodeIds(pre.nodes) \ gone) \cup {PackedGroup}
           /\ Cardinality(NodeIds(nodes)) = Len(nodes)
           /\ ic.type = "IC"
           /\ ic.inputCount = ins /\ ic.outputCount = outs
           /\ ic.inputMapping = Some([p \in 1..ins |-> p - 1])
           /\ ic.outputMapping = Some([p \in 1..outs |-> p - 1])
           /\ ic.inputs = Fill(ins, FALSE) /\ ic.outputs = Fill(outs, FALSE)
           /\ wires = SelectSeq(pre.wires, LAMBDA w :
                           w.sourceNodeId \notin gone /\ w.targetNodeId \notin gone)
           /\ \A n \in Range(pre.nodes) :
                  n.id \notin gone \cup {PackedGroup} =>
                      HasNode(nodes, n.id) /\ GetNode(nodes, n.id) = n
           /\ selectedNodeIds = <<PackedGroup>>

(* a pack of the second switch and the AND gate: two wires cross the       *)
(* group's border and go, the wire from the first switch to the light and  *)
(* both these nodes stay                                                   *)
C23_Witness ==
    /\ lastOp = "packGroupToIC"
    /\ Len(PackedMembers) = 2
    /\ Len(pre.wires) = 4
    /\ Len(wires) = 1
    /\ Len(nodes) = 3
    /\ GetNode(nodes, PackedGroup).inputCount = 1

(* the selected nodes of e that are GROUPs *)
SelectedGroups(e) == {id \in Range(e.selectedNodeIds) : TypeOf(e.nodes, id) = "GROUP"}

(* C24: packGroupToIC changes nothing while the selection holds two or     *)
(* more GROUP nodes: a pack that changed the engine had at most one GROUP  *)
(* selected.                                                               *)
C24_PackNeedsOneGroup ==
    lastOp = "packGroupToIC" => Cardinality(SelectedGroups(pre)) < 2

(* the IC an unpack converted, in the engine before it *)
UnpackedIC == GetNode(pre.nodes, firstSelected(pre, "IC"))

(* the nodes an operation added, in Map order *)
AddedNodes == SelectSeq(nodes, LAMBDA n : n.id \notin NodeIds(pre.nodes))

(* C25: after a successful unpackICToGroup the IC's id is gone from the    *)
(* node map and from the function cache, one new GROUP node exists, every  *)
(* stored node exists once under a fresh id, in the new group and at the   *)
(* IC's position plus its stored position, every re-created wire is off    *)
(* and joins re-created nodes, and the selection is the new group and its  *)
(* members.                                                                *)
C25_UnpackRecreatesGroup ==
    lastOp = "unpackICToGroup" =>
        LET stored == The(UnpackedIC.internals).nodes
            group == AddedNodes[1]
            members == Tail(AddedNodes)
            added == SubSeq(wires, Len(pre.wires) + 1, Len(wires))
        IN /\ ~HasNode(nodes, UnpackedIC.id)
           /\ cacheGet(fnCache, UnpackedIC.id) = <<>>
           /\ Len(AddedNodes) = 1 + Len(stored)
           /\ Cardinality(NodeIds(AddedNodes)) = Len(AddedNodes)
           /\ group.type = "GROUP"
           /\ \A i \in 1..Len(stored) :
                  /\ members[i].type = stored[i].type
                  /\ members[i].groupId = group.id
                  /\ members[i].position = [x |-> UnpackedIC.position.x + stored[i].position.x,
                                            y |-> UnpackedIC.position.y + stored[i].position.y]
           /\ Len(nodes) = Len(pre.nodes) + Len(stored)
           /\ \A k \in 1..Len(added) :
                  /\ ~added[k].state
                  /\ added[k].sourceNodeId \in NodeIds(members)
                  /\ added[k].targetNodeId \in NodeIds(members)
           /\ Len(selectedNodeIds) = Len(AddedNodes)
           /\ Range(selectedNodeIds) = NodeIds(AddedNodes)

(* a chip unpacked after a tick compiled and cached its function, whose    *)
(* snapshot holds a wire that was on when the chip was packed              *)
C25_Witness ==
    /\ lastOp = "unpackICToGroup"
    /\ cacheGet(pre.fnCache, UnpackedIC.id) # <<>>
    /\ Len(The(UnpackedIC.internals).nodes) = 2
    /\ \E w \in Range(The(UnpackedIC.internals).wires) : w.state
    /\ Len(wires) = Len(pre.wires) + 1

(* the chip a pack made *)
PackedIC == GetNode(nodes, PackedGroup)

(* the ICs among the nodes the chip was packed from *)
NestedICs(ic) == SelectSeq(The(ic.internals).nodes, LAMBDA n : n.type = "IC")

(* C26: a chip packed from a group that holds a nested IC answers every    *)
(* input sequence as the same group does unpacked, whatever the pin        *)
(* mappings of the nested IC: after each input vector its output pins show *)
(* what the inputs of the LIGHTs settle to in the stored circuit.          *)
C26_NestedMappingPreserved ==
    (lastOp = "packGroupToIC" /\ Len(NestedICs(PackedIC)) > 0) =>
        \A seq \in InputSeqs(PackedIC.inputCount) :
            \A k \in 1..Len(seq) :
                Responses(PackedIC, seq)[k] = Settle(PackedIC, seq[k])

(* the members of the packed group that own a state slot, in Map order *)
StateMembers == SelectSeq(PackedMembers, LAMBDA n : n.type # "SWITCH")

(* C27: after packGroupToIC the new IC has one state slot per member that  *)
(* is not a SWITCH; the slot of a nested IC holds a copy of that IC's      *)
(* internalState at pack time (the empty list if it had none), every other *)
(* slot holds 0.                                                           *)
C27_NestedStateKept ==
    lastOp = "packGroupToIC" =>
        /\ IsSome(PackedIC.internalState)
        /\ Len(The(PackedIC.internalState)) = Len(StateMembers)
        /\ \A i \in 1..Len(StateMembers) :
               IF StateMembers[i].type = "IC"
               THEN The(PackedIC.internalState)[i].st =
                        (IF IsSome(StateMembers[i].internalState)
                         THEN The(StateMembers[i].internalState) ELSE <<>>)
               ELSE The(PackedIC.internalState)[i].v = 0

(* a pack of a group whose nested chip had been stepped: its NOT gate's    *)
(* state variable was 1 at pack time and is 1 in the new chip's slot       *)
C27_Witness ==
    /\ lastOp = "packGroupToIC"
    /\ \E i \in 1..Len(StateMembers) :
           /\ StateMembers[i].type = "IC"
           /\ IsSome(StateMembers[i].internalState)
           /\ \E s \in Range(The(StateMembers[i].internalState)) : s.v = 1
           /\ The(PackedIC.internalState)[i].st = The(StateMembers[i].internalState)
    /\ \E i \in 1..Len(StateMembers) : StateMembers[i].type = "LIGHT"

-----------------------------------------------------------------------------
(* Properties of groups *)

(* a groupId that is set: neither missing nor undefined *)
InGroup(n) == n.groupId > 0

(* C28: in every reachable state every node whose groupId is set refers to *)
(* a node that exists and is a GROUP, and no GROUP node has a groupId.     *)
C28_GroupRefsValid ==
    \A n \in Range(nodes) :
        /\ InGroup(n) => HasNode(nodes, n.groupId) /\ TypeOf(nodes, n.groupId) = "GROUP"
        /\ n.type = "GROUP" => ~InGroup(n)

(* a group duplicated with its members: the clones refer to the new group *)
C28_Witness ==
    /\ lastOp = "duplicateSelected"
    /\ \E n \in Range(nodes) :
           /\ InGroup(n)
           /\ ~HasNode(pre.nodes, n.id)
           /\ ~HasNode(pre.nodes, n.groupId)
           /\ TypeOf(nodes, n.groupId) = "GROUP"

(* the selected ids of the engine before the step that name a node *)
Originals == SelectSeq(pre.selectedNodeIds, LAMBDA id : HasNode(pre.nodes, id))

(* the wires of the engine before the step with both ends selected *)
SelectedWires ==
    SelectSeq(pre.wires, LAMBDA w : /\ w.sourceNodeId \in Range(Originals)
                                   /\ w.targetNodeId \in Range(Originals))

(* the clone of the selected node id: clones are added in selection order *)
CloneOf(id) == AddedNodes[IndexOf(Originals, id) + 1]

(* C29: duplicateSelected adds exactly one clone per selected node, with a *)
(* fresh id, the position shifted by (20, 20) and all pins false; it adds  *)
(* exactly one wire per wire with both ends selected, joining the clones   *)
(* on the same pins; a clone refers to a group only if its group was       *)
(* cloned too, and then to the group's clone; the original nodes and wires *)
(* are unchanged and the selection is exactly the clones.                  *)
C29_DuplicateFrame ==
    lastOp = "duplicateSelected" =>
        LET added == SubSeq(wires, Len(pre.wires) + 1, Len(wires))
        IN /\ SubSeq(nodes, 1, Len(pre.nodes)) = pre.nodes
           /\ SubSeq(wires, 1, Len(pre.wires)) = pre.wires
           /\ Len(AddedNodes) = Len(Originals)
           /\ Len(nodes) = Len(pre.nodes) + Len(Originals)
           /\ Cardinality(NodeIds(AddedNodes)) = Len(AddedNodes)
           /\ \A i \in 1..Len(Originals) :
                  LET o == GetNode(pre.nodes, Originals[i])
                      c == AddedNodes[i]
                  IN /\ c.type = o.type
                     /\ c.position = [x |-> o.position.x + P(20), y |-> o.position.y + P(20)]
                     /\ Len(c.inputs) = Len(o.inputs) /\ \A k \in 1..Len(c.inputs) : ~c.inputs[k]
                     /\ Len(c.outputs) = Len(o.outputs) /\ \A k \in 1..Len(c.outputs) : ~c.outputs[k]
                     /\ IF InGroup(o) /\ o.groupId \in Range(Originals)
                        THEN c.groupId = CloneOf(o.groupId).id
                        ELSE ~InGroup(c)
           /\ Len(added) = Len(SelectedWires)
           /\ \A k \in 1..Len(added) :
                  /\ added[k].sourceNodeId = CloneOf(SelectedWires[k].sourceNodeId).id
                  /\ added[k].targetNodeId = CloneOf(SelectedWires[k].targetNodeId).id
                  /\ added[k].sourcePinIndex = SelectedWires[k].sourcePinIndex
                  /\ added[k].targetPinIndex = SelectedWires[k].targetPinIndex
                  /\ \A j \in 1..Len(wires) : wires[j].id = added[k].id => j = Len(pre.wires) + k
           /\ selectedNodeIds = idsOf(AddedNodes)

(* the second switch and the AND gate duplicated without the AND gate's    *)
(* group: the wire between them is cloned and the AND gate's clone is in   *)
(* no group                                                                *)
C29_Witness ==
    /\ lastOp = "duplicateSelected"
    /\ Len(Originals) = 2
    /\ Len(SelectedWires) = 1
    /\ Len(wires) = Len(pre.wires) + 1
    /\ \E i \in 1..Len(Originals) :
           /\ InGroup(GetNode(pre.nodes, Originals[i]))
           /\ GetNode(pre.nodes, Originals[i]).groupId \notin Range(Originals)
           /\ ~InGroup(AddedNodes[i])

(* the nodes on the clipboard when paste was called *)
Copied == The(pre.clipboard).nodes

(* C30: paste puts a pasted member into the pasted copy of its group when  *)
(* the GROUP node was copied together with it, and into no group when its  *)
(* group was not copied.                                                   *)
C30_PasteRelinksGroups ==
    lastOp = "paste" =>
        /\ Len(AddedNodes) = Len(Copied)
        /\ \A i \in 1..Len(Copied) :
               IF InGroup(Copied[i]) /\ TypeOf(Copied, Copied[i].groupId) = "GROUP"
               THEN AddedNodes[i].groupId = AddedNodes[idIndex(Copied, Copied[i].groupId) + 1].id
               ELSE ~InGroup(AddedNodes[i])

-----------------------------------------------------------------------------
(* Properties of the function cache *)

(* the entries of the cache that belong to the node *)
EntriesOf(n) == {c \in fnCache : c.id = n.id}

(* C31: in every reachable state, for every IC node that has an entry in   *)
(* the compiled-function cache, the cached function was compiled from the  *)
(* node's current code body.                                               *)
C31_CacheCoherent ==
    \A i \in 1..Len(nodes) :
        nodes[i].type = "IC" =>
            \A c \in EntriesOf(nodes[i]) : nodes[i].compiledFunction = Some(c.fn)

-----------------------------------------------------------------------------
(* Properties of the step *)

(* the input pins (node index, pin index) no wire from an existing node *)
(* leads to                                                             *)
Unwired(e) ==
    {<<i, k>> \in {<<i, k>> : i \in 1..Len(e.nodes), k \in 0..3} :
        /\ k < Len(e.nodes[i].inputs)
        /\ ~\E j \in 1..Len(e.wires) :
              /\ wireGuard(e.nodes, e.wires[j])
              /\ e.wires[j].targetNodeId = e.nodes[i].id
              /\ e.wires[j].targetPinIndex = k}

(* a wire without its signal *)
Endpoints(w) == [w EXCEPT !.state = FALSE]

(* C32: after a tick every input pin without an incoming wire from an     *)
(* existing node is false, and the tick has left every SWITCH output, the *)
(* set of nodes, each wire's endpoints, the selection, the viewport and   *)
(* the history and redo stacks as they were.                              *)
C32_TickFrame ==
    lastOp \in {"tick", "frame"} =>
        /\ \A p \in Unwired(Eng) : nodes[p[1]].inputs[p[2] + 1] = FALSE
        /\ Len(nodes) = Len(pre.nodes)
        /\ \A i \in 1..Len(nodes) :
              /\ nodes[i].id = pre.nodes[i].id
              /\ nodes[i].type = pre.nodes[i].type
              /\ nodes[i].type = "SWITCH" => nodes[i].outputs = pre.nodes[i].outputs
        /\ Len(wires) = Len(pre.wires)
        /\ \A j \in 1..Len(wires) : Endpoints(wires[j]) = Endpoints(pre.wires[j])
        /\ selectedNodeIds = pre.selectedNodeIds
        /\ selectedWireIds = pre.selectedWireIds
        /\ viewport = pre.viewport
        /\ historyStack = pre.historyStack
        /\ redoStack = pre.redoStack

(* a tick has cleared an input pin that was high and has lost its wire *)
C32_Witness ==
    /\ lastOp \in {"tick", "frame"}
    /\ \E p \in Unwired(Eng) :
          /\ pre.nodes[p[1]].inputs[p[2] + 1] = TRUE
          /\ nodes[p[1]].inputs[p[2] + 1] = FALSE

(* the orderings of a map of n entries *)
Orderings(n) == {p \in [1..n -> 1..n] : \A i, j \in 1..n : p[i] = p[j] => i = j}

(* the engine whose node map holds the same nodes in the order p *)
Reordered(e, p) == [e EXCEPT !.nodes = [i \in 1..Len(e.nodes) |-> e.nodes[p[i]]]]

(* the inputs and outputs of every node, and the wires with their states *)
Signals(e) ==
    [pins |-> {<<e.nodes[i].id, e.nodes[i].inputs, e.nodes[i].outputs>> : i \in 1..Len(e.nodes)},
     wires |-> e.wires]

(* C33: the state after a tick does not depend on the order in which the  *)
(* nodes are visited: from every circuit, a tick on every ordering of the *)
(* node map gives the same inputs, outputs and wire states.               *)
C33_OrderIndependent ==
    \A p \in Orderings(Len(nodes)) :
        Signals(tick(Reordered(Eng, p), 0 - 1)) = Signals(tick(Eng, 0 - 1))

(* a circuit of five nodes in which the next tick changes a signal that a *)
(* gate or a chip passes on                                                *)
C33_Witness ==
    /\ Len(nodes) >= 5
    /\ lastOp = "toggleSwitch"
    /\ \E i \in 1..Len(nodes) :
          /\ nodes[i].type \in GateTypes \cup {"IC"}
          /\ tick(Eng, 0 - 1).nodes[i].outputs # nodes[i].outputs
          /\ \E j \in 1..Len(wires) : wires[j].sourceNodeId = nodes[i].id

-----------------------------------------------------------------------------
(* Properties of the history *)

(* a stack without its top, and its top *)
Front(stack) == SubSeq(stack, 1, Len(stack) - 1)
Top(stack) == stack[Len(stack)]

(* C34: undo and redo never create a checkpoint: each moves exactly one   *)
(* snapshot between the history stack and the redo stack; the history     *)
(* stack is never empty after construction, undo with a single history    *)
(* entry changes nothing and redo with an empty redo stack changes        *)
(* nothing.                                                               *)
C34_UndoRedoMoveOne ==
    /\ Len(historyStack) >= 1
    /\ lastOp = "undo" =>
          /\ Len(pre.historyStack) >= 2
          /\ historyStack = Front(pre.historyStack)
          /\ redoStack = Append(pre.redoStack, Top(pre.historyStack))
    /\ lastOp = "redo" =>
          /\ Len(pre.redoStack) >= 1
          /\ redoStack = Front(pre.redoStack)
          /\ historyStack = Append(pre.historyStack, Top(pre.redoStack))
    /\ Len(historyStack) = 1 => undo(Eng) = Eng
    /\ Len(redoStack) = 0 => redo(Eng) = Eng

(* undo has reached the first checkpoint, where a further undo is refused *)
C34_Witness ==
    /\ lastOp = "undo"
    /\ Len(historyStack) = 1
    /\ Len(redoStack) >= 4

(* C35: in every reachable state no two adjacent entries of the history   *)
(* stack are equal snapshots.                                             *)
C35_NoAdjacentDuplicates ==
    \A i \in 1..(Len(historyStack) - 1) : historyStack[i] # historyStack[i + 1]

(* an edit whose saveState found its snapshot on top of the stack and     *)
(* pushed nothing                                                         *)
C35_Witness ==
    /\ lastOp \in {"addNode", "updateNodeData", "deleteSelected"}
    /\ historyStack = pre.historyStack
    /\ Top(historyStack) = stringify(serialize(pre))

(* C36: after undo() followed by a state-mutating operation the redo      *)
(* stack is empty, so a later redo() changes nothing.                     *)
C36_EditAfterUndoClearsRedo ==
    [][(lastOp = "undo" /\ lastOp' \in MutatingOps) =>
           (redoStack' = <<>> /\ redo(Eng)' = Eng')]_vars

-----------------------------------------------------------------------------
(* Properties of the simulation rate *)

(* C37: any two consecutive simulation steps started by timestamped calls *)
(* tick(t) have timestamps at least tickRate apart, also when forced      *)
(* ticks happen between them.                                             *)
C37_StepsAtTickRate ==
    [][(lastOp' = "animationFrame" /\ IsSome(lastStep)) =>
           now' - The(lastStep) >= tickRate]_vars

-----------------------------------------------------------------------------
(* Properties of the pointer handlers *)

(* a pointer-up has added a wire *)
WireAdded == lastOp = "pointerUp" /\ Len(wires) > Len(pre.wires)

(* C38: interactionMode is NONE after every pointer-up, WIRING implies    *)
(* that wiringStart is set, wiringStart is null whenever interactionMode  *)
(* is NONE, and a wire is added only when a wiring gesture ends over an   *)
(* input pin of a node other than the one it started from.                *)
C38_PointerModes ==
    /\ lastOp = "pointerUp" => interactionMode = "NONE"
    /\ interactionMode = "WIRING" => IsSome(wiringStart)
    /\ interactionMode = "NONE" => wiringStart = <<>>
    /\ WireAdded =>
          /\ pre.interactionMode = "WIRING"
          /\ IsSome(pre.wiringStart)
          /\ IsSome(gesture.pin)
          /\ The(gesture.pin).type = "input"
          /\ The(gesture.pin).nodeId # The(pre.wiringStart).nodeId

-----------------------------------------------------------------------------
(* Properties of grouping *)

(* the group a node belongs to; undefined and a missing field are alike *)
GroupOf(n) == IF n.groupId = Undefined THEN Absent ELSE n.groupId

(* C39: createGroupFromSelection immediately followed by ungroupSelected  *)
(* leaves the node set, every node's groupId and the wire list as they    *)
(* were before the grouping, for every selection.                         *)
C39_GroupUngroupRoundTrip ==
    LET same(r) ==
            /\ NodeIds(r.nodes) = NodeIds(pre.nodes)
            /\ \A id \in NodeIds(pre.nodes) :
                  GroupOf(GetNode(r.nodes, id)) = GroupOf(GetNode(pre.nodes, id))
            /\ r.wires = pre.wires
    IN lastOp = "createGroupFromSelection" => same(ungroupSelected(Eng))


-----------------------------------------------------------------------------
(* Properties of the database connection *)

(* the connections that getDB() calls have been given *)
Received == {calls[c].db : c \in {k \in Callers : calls[k].at \in {"returned", "resumed"}}}

(* C40: with no closeDB in between, concurrent getDB() calls invoke      *)
(* openDB a single time and all of them receive the same connection       *)
C40_OpenOnce ==
    closed = 0 => (opened <= 1 /\ Cardinality(Received) <= 1)
====
